---- MODULE Spec2Model ----
(***************************************************************************)
(* A model of src/blockchain.py: the Blockchain class (chain, pending      *)
(* transactions, block hashing, proof of work) and the three Flask         *)
(* endpoints /mine, /transactions/new and /chain that drive it.            *)
(*                                                                         *)
(* Python values that may have more than one type are tagged records       *)
(* [t, v]; a block is a record with the five keys of the dict built in     *)
(* create_block; a transaction is a record with the three keys of the dict *)
(* built in create_transaction.                                            *)
(***************************************************************************)
EXTENDS Integers, Sequences, FiniteSets, TLC

(***************************************************************************)
(* Bounds of the model.                                                    *)
(***************************************************************************)
\* longest chain explored (genesis included)
MaxChain == 3
\* most transactions created over a run (rewards included)
MaxEnqueued == 2
\* time() returns a value in 0..MaxTime
MaxTime == 1
\* block digests are modelled with HashMod possible values
HashMod == 61

\* the largest last_proof and the largest proof handed to valid_proof alone
MaxLastProof == 99
MaxProof == 99

(***************************************************************************)
(* Inputs.                                                                 *)
(***************************************************************************)
Timestamps == 0..MaxTime
Senders == {"a"}
Recipients == {"b"}
Amounts == {-1, 0, 5}
\* proofs a direct caller of create_block passes
ProofInputs == {35}
\* references the proof-of-work search is examined on (SpecSolve)
References == {0, 1, 2, 7, 12, 26, 27, 35, 57, 100, 175, 226, 289, 346}
RequiredKeys == {"sender", "recipient", "amount"}

(***************************************************************************)
(* Python values.                                                          *)
(***************************************************************************)
None == [t |-> "none", v |-> 0]
PyInt(n) == [t |-> "int", v |-> n]
PyStr(s) == [t |-> "str", v |-> s]

\* str(uuid4()).replace('-', ''): one fixed identifier per process
node_identifier == "node"

(***************************************************************************)
(* hashlib.sha256(guess).hexdigest()[:2] == "00", tabulated.  A guess is a *)
(* string of decimal digits; it is keyed by the number written as the      *)
(* digit 1 followed by the digits of the guess (so "0035" is 10035 and     *)
(* leading zeros are kept).  The set below holds the keys of exactly the   *)
(* digit strings of 1 to 6 characters whose SHA-256 hex digest starts with *)
(* two '0' characters.                                                     *)
(***************************************************************************)
ZeroPrefixedGuesses ==
  {
    1286, 1671, 1886, 10563, 10571, 10592, 10730, 10781, 11039, 11064, 11467, 11908,
    12518, 12566, 12650, 12726, 12984, 13525, 13627, 13633, 14076, 14091, 14541, 15848,
    16002, 16056, 16150, 16167, 16726, 16759, 16889, 16890, 16955, 17058, 17198, 17615,
    17824, 18536, 18554, 19004, 19487, 19919, 19940, 100679, 101338, 101819, 101870, 102727,
    102793, 102832, 103359, 103415, 103663, 103852, 103856, 104113, 104127, 104693, 104904, 104958,
    105017, 105098, 105205, 105384, 105407, 105560, 105685, 105795, 106333, 106706, 107114, 107166,
    107355, 108560, 108883, 108947, 109613, 109625, 109637, 110164, 110567, 110998, 111408, 111728,
    111837, 112399, 112823, 113473, 113897, 114034, 114955, 115921, 116101, 116237, 116723, 116808,
    116989, 117093, 117527, 117611, 118130, 118390, 118462, 118636, 118913, 118926, 119679, 119771,
    120069, 120300, 120414, 121098, 121226, 121244, 121491, 122117, 122244, 122287, 122718, 122936,
    123071, 123452, 124445, 124554, 124714, 125116, 125225, 125250, 125373, 126014, 126272, 126599,
    127174, 127532, 128047, 128100, 128264, 128508, 128682, 129205, 129263, 129484, 129641, 129685,
    129882, 129977, 130050, 130159, 130563, 130578, 130598, 131129, 131613, 131855, 132264, 132448,
    132685, 132695, 132754, 132804, 133567, 134391, 134657, 134873, 135184, 135405, 135475, 136164,
    136943, 137121, 137569, 137833, 138084, 138088, 138541, 138737, 139260, 139326, 139808, 140692,
    140722, 140744, 141570, 141657, 141697, 141890, 142083, 142476, 143692, 144223, 145014, 145036,
    145259, 145378, 145499, 145740, 146163, 147127, 147192, 147238, 147519, 148011, 148027, 148043,
    148128, 148142, 148165, 148559, 148678, 149293, 149365, 149755, 149977, 150329, 150342, 150436,
    150450, 150858, 151275, 151278, 151425, 151623, 151633, 151710, 151916, 152252, 152260, 152813,
    153278, 153477, 154071, 154339, 154495, 155483, 155585, 155824, 156159, 156483, 156757, 156866,
    157289, 157364, 157402, 157514, 157584, 157861, 157971, 158012, 158170, 158538, 158663, 158672,
    158715, 158885, 159026, 159052, 159157, 159701, 160147, 160532, 160750, 160827, 161600, 161925,
    162012, 162085, 162200, 162242, 163310, 163454, 164003, 164030, 164127, 164322, 164376, 164478,
    165292, 165509, 165565, 166354, 166397, 166431, 166670, 166923, 167072, 167189, 167486, 168531,
    168580, 168591, 168656, 168666, 168767, 169064, 169214, 169671, 170017, 171149, 171449, 171608,
    171656, 171884, 171983, 172088, 173006, 173009, 173179, 173315, 173673, 173991, 174428, 175093,
    175717, 175781, 175783, 176091, 176094, 176102, 176513, 177379, 177409, 177492, 177734, 177923,
    177971, 178127, 178306, 178637, 178791, 178862, 178974, 180235, 180610, 180872, 180921, 180939,
    181016, 181042, 181416, 182477, 182722, 183016, 183113, 183258, 183581, 183846, 183901, 183972,
    184026, 184057, 184305, 184351, 184529, 185033, 185136, 185434, 185533, 185811, 185893, 186172,
    186423, 186549, 186600, 187562, 187849, 187852, 187935, 187956, 188026, 188096, 188154, 188157,
    188484, 188660, 188864, 189042, 189155, 189700, 190118, 190209, 190395, 190520, 190860, 190947,
    191415, 191835, 191892, 192381, 192427, 192805, 193110, 193278, 193449, 194286, 194863, 194919,
    195414, 195454, 195456, 195591, 196040, 196635, 196731, 196760, 196952, 196984, 197348, 197735,
    198093, 198443, 198673, 198735, 199041, 199103, 199164, 199256, 199658, 199839, 1001687, 1001716,
    1002080, 1002143, 1002398, 1002450, 1002597, 1002814, 1002926, 1002973, 1003012, 1003095, 1003500, 1003973,
    1004073, 1004370, 1004548, 1004860, 1005039, 1005196, 1005512, 1006086, 1006265, 1006502, 1006800, 1007196,
    1007351, 1007711, 1007985, 1008067, 1008210, 1008245, 1008302, 1008361, 1008862, 1008900, 1008992, 1009378,
    1009768, 1010179, 1010218, 1010356, 1011013, 1011458, 1012240, 1012268, 1012278, 1012371, 1012775, 1013145,
    1013256, 1013360, 1013752, 1013780, 1014893, 1014921, 1015831, 1015939, 1016342, 1016627, 1016659, 1016885,
    1016958, 1016991, 1017086, 1017760, 1017966, 1017986, 1018298, 1018357, 1018660, 1018693, 1018746, 1018825,
    1019175, 1019249, 1019326, 1019540, 1019686, 1019890, 1020844, 1021200, 1021770, 1021919, 1022294, 1022976,
    1023433, 1023601, 1023970, 1024509, 1024766, 1024817, 1024905, 1025252, 1025543, 1025888, 1025969, 1026402,
    1026408, 1026953, 1027216, 1027403, 1027544, 1027667, 1027990, 1028199, 1028496, 1028530, 1028747, 1028915,
    1029095, 1029133, 1029594, 1029677, 1029918, 1030979, 1031068, 1031075, 1031099, 1031135, 1031267, 1031337,
    1031723, 1033020, 1033234, 1033270, 1033468, 1033655, 1033675, 1033739, 1033989, 1034384, 1034467, 1034836,
    1034935, 1035114, 1035463, 1035573, 1036103, 1036251, 1036406, 1037083, 1037227, 1037415, 1037553, 1037733,
    1038013, 1038034, 1038456, 1039254, 1039260, 1039357, 1039448, 1039836, 1039926, 1039991, 1040116, 1040285,
    1040361, 1040703, 1041118, 1041374, 1041409, 1041533, 1041565, 1042038, 1042186, 1042323, 1042376, 1042431,
    1042750, 1042985, 1043621, 1043933, 1044421, 1044605, 1044679, 1044761, 1044995, 1045165, 1045305, 1046158,
    1046868, 1046876, 1047693, 1047991, 1048065, 1048117, 1048151, 1048724, 1048865, 1049288, 1049509, 1049650,
    1049985, 1050312, 1050361, 1050586, 1050635, 1050878, 1050967, 1052267, 1052272, 1052576, 1053145, 1053312,
    1053574, 1053680, 1053991, 1054316, 1055238, 1055342, 1055442, 1055452, 1056080, 1056117, 1056289, 1056555,
    1056864, 1057139, 1057193, 1058371, 1058872, 1059218, 1059764, 1059870, 1060059, 1060392, 1060754, 1061450,
    1061579, 1062011, 1062067, 1062070, 1062281, 1062642, 1062914, 1063054, 1063437, 1063532, 1063986, 1064143,
    1064195, 1064403, 1064718, 1064749, 1065634, 1065705, 1066048, 1066165, 1066347, 1066858, 1067412, 1067564,
    1067834, 1068131, 1068339, 1068351, 1068523, 1068545, 1068644, 1068661, 1068885, 1069168, 1069325, 1069378,
    1069732, 1069811, 1069879, 1069969, 1070081, 1070129, 1070255, 1070407, 1070423, 1070742, 1070997, 1071004,
    1071850, 1072089, 1072178, 1072299, 1072885, 1073116, 1073197, 1073323, 1073680, 1074111, 1074244, 1074325,
    1074999, 1075090, 1076052, 1076083, 1076299, 1076369, 1076636, 1077537, 1077557, 1077791, 1078383, 1079323,
    1079324, 1079340, 1079406, 1079535, 1080492, 1080579, 1081108, 1081200, 1081288, 1081738, 1082210, 1082230,
    1082520, 1082670, 1083014, 1083186, 1083241, 1083596, 1083915, 1083970, 1084611, 1084764, 1084988, 1085115,
    1085843, 1086029, 1086211, 1086295, 1086392, 1087040, 1087269, 1087396, 1087418, 1087479, 1087966, 1087985,
    1088025, 1088365, 1088395, 1088580, 1088648, 1088955, 1089389, 1089510, 1089549, 1090218, 1090639, 1090916,
    1091546, 1091658, 1091916, 1091977, 1093650, 1093688, 1093919, 1094386, 1094454, 1094508, 1094612, 1094979,
    1094996, 1095474, 1095739, 1095970, 1096166, 1096415, 1096757, 1097348, 1097454, 1097547, 1097582, 1097801,
    1097861, 1098431, 1098711, 1098835, 1098895, 1098948, 1099222, 1099225, 1099340, 1099347, 1099366, 1099743,
    1100226, 1100319, 1100467, 1101322, 1101581, 1101619, 1101979, 1102209, 1102622, 1103004, 1103274, 1103553,
    1103674, 1103915, 1104199, 1104351, 1104420, 1104448, 1104578, 1104603, 1104622, 1104690, 1104770, 1105064,
    1105229, 1105550, 1105612, 1105794, 1106263, 1106713, 1107055, 1107609, 1107612, 1107624, 1107706, 1108241,
    1108345, 1108376, 1108552, 1109652, 1109977, 1110057, 1110989, 1111062, 1111183, 1111270, 1112358, 1112544,
    1112634, 1112662, 1112681, 1112712, 1112952, 1113352, 1113435, 1113719, 1113935, 1114163, 1114335, 1114433,
    1114960, 1115015, 1115263, 1115294, 1115489, 1115616, 1115962, 1116246, 1116474, 1116762, 1116843, 1117690,
    1117986, 1118089, 1118110, 1118348, 1118996, 1119126, 1119147, 1119222, 1119448, 1120056, 1120321, 1120368,
    1120438, 1120450, 1120532, 1121129, 1121435, 1121626, 1121860, 1122329, 1122388, 1122511, 1122638, 1123526,
    1123677, 1123695, 1123804, 1123854, 1123895, 1124143, 1124361, 1124687, 1124710, 1124768, 1124853, 1124891,
    1125045, 1125048, 1125184, 1125487, 1125493, 1125641, 1125795, 1126059, 1126987, 1127296, 1127771, 1128467,
    1128623, 1128969, 1129053, 1129128, 1129186, 1129452, 1130140, 1130479, 1130917, 1131940, 1132091, 1132458,
    1132532, 1132712, 1133308, 1133463, 1134074, 1134213, 1134431, 1134494, 1134791, 1135513, 1136000, 1136207,
    1137099, 1137555, 1137597, 1138017, 1138094, 1138341, 1138551, 1138557, 1138754, 1139165, 1139588, 1139805,
    1140046, 1140161, 1140579, 1140808, 1140833, 1141094, 1141270, 1141966, 1141983, 1142122, 1142724, 1142728,
    1142762, 1142821, 1142872, 1143059, 1143249, 1143419, 1144390, 1144544, 1144729, 1145034, 1145435, 1145659,
    1145681, 1145697, 1145719, 1145898, 1145920, 1146277, 1146678, 1147031, 1147051, 1147307, 1147522, 1147909,
    1148143, 1148416, 1148653, 1148871, 1149193, 1149652, 1149816, 1150170, 1150624, 1150962, 1151671, 1152782,
    1153048, 1153097, 1153186, 1153705, 1154132, 1154139, 1154154, 1154538, 1155328, 1155403, 1155793, 1155821,
    1155991, 1156393, 1156608, 1156917, 1157182, 1157292, 1157458, 1157610, 1158313, 1158558, 1158579, 1158702,
    1158975, 1159192, 1159420, 1160173, 1160205, 1160985, 1161062, 1161068, 1161170, 1161251, 1161626, 1161728,
    1161999, 1162044, 1162082, 1162268, 1162677, 1163642, 1163757, 1163818, 1164045, 1165412, 1166325, 1167088,
    1167495, 1167657, 1167712, 1167819, 1167832, 1168286, 1168320, 1168599, 1168667, 1168977, 1169373, 1169774,
    1169860, 1170016, 1170268, 1170359, 1170860, 1170956, 1171150, 1171351, 1171905, 1172066, 1172098, 1172168,
    1172608, 1172885, 1173031, 1173117, 1173298, 1173668, 1173852, 1174136, 1174191, 1174528, 1174801, 1174808,
    1174838, 1175684, 1176261, 1176399, 1177334, 1177353, 1178544, 1178547, 1178575, 1178671, 1178748, 1179352,
    1179476, 1179846, 1179985, 1180096, 1180529, 1181302, 1181474, 1182399, 1182491, 1182654, 1182811, 1183444,
    1184385, 1184440, 1184533, 1185275, 1185300, 1185429, 1185461, 1185661, 1185712, 1185726, 1186313, 1186481,
    1186663, 1186720, 1186743, 1186939, 1187304, 1187382, 1187595, 1188215, 1188526, 1188858, 1189796, 1189902,
    1190601, 1191073, 1191119, 1191377, 1191527, 1191572, 1191910, 1192628, 1192635, 1192656, 1192855, 1193179,
    1193694, 1193753, 1193817, 1194148, 1194160, 1194330, 1194399, 1194421, 1195632, 1195776, 1196156, 1196215,
    1196328, 1196835, 1196852, 1197188, 1197435, 1197711, 1197723, 1198139, 1198439, 1198806, 1198912, 1199142,
    1199294, 1199501, 1199672, 1199861, 1199952, 1200230, 1200354, 1200428, 1200941, 1201085, 1201631, 1201668,
    1202157, 1202734, 1202875, 1202878, 1203137, 1203375, 1203604, 1203620, 1204305, 1204525, 1204674, 1204733,
    1205155, 1205405, 1205641, 1205915, 1206429, 1206535, 1207116, 1207712, 1207867, 1207938, 1208128, 1208276,
    1208341, 1208426, 1208611, 1208644, 1208652, 1208740, 1208867, 1208898, 1210951, 1211056, 1211163, 1211535,
    1212058, 1212474, 1212552, 1212602, 1212851, 1212911, 1213091, 1213361, 1213392, 1213483, 1213580, 1213929,
    1213938, 1214046, 1214585, 1214626, 1214694, 1214927, 1215225, 1215655, 1216343, 1216931, 1217012, 1217452,
    1217526, 1217590, 1218357, 1218480, 1218640, 1218679, 1219071, 1219559, 1219951, 1220070, 1220103, 1220969,
    1221338, 1221465, 1221607, 1221702, 1223070, 1223367, 1223499, 1223581, 1223894, 1224653, 1225042, 1225218,
    1225307, 1225851, 1225969, 1226346, 1226360, 1226653, 1226734, 1226779, 1227066, 1227150, 1228008, 1228081,
    1228558, 1228864, 1229158, 1230351, 1230665, 1230704, 1230742, 1230754, 1230757, 1230794, 1230810, 1231154,
    1231239, 1231247, 1231393, 1231662, 1231729, 1231842, 1231867, 1231885, 1232211, 1232517, 1232918, 1233013,
    1233713, 1233769, 1233989, 1234682, 1234842, 1234990, 1235270, 1235654, 1236293, 1236302, 1236364, 1236420,
    1236854, 1237033, 1237664, 1237748, 1238110, 1238402, 1238974, 1238980, 1239273, 1239320, 1239442, 1239972,
    1239981, 1240138, 1240145, 1240232, 1240314, 1240329, 1240472, 1240497, 1240518, 1240758, 1240804, 1240899,
    1241445, 1241581, 1241900, 1242288, 1243047, 1243139, 1243146, 1243502, 1243601, 1243948, 1243987, 1244024,
    1244050, 1244468, 1244952, 1245927, 1246272, 1246664, 1246727, 1247124, 1247329, 1247337, 1247511, 1248164,
    1248356, 1248467, 1248709, 1248794, 1248916, 1249033, 1249460, 1249805, 1250079, 1250174, 1250332, 1250432,
    1250539, 1250756, 1250836, 1250845, 1250914, 1250989, 1251008, 1251045, 1251516, 1252481, 1252673, 1252977,
    1253288, 1253313, 1253547, 1254875, 1254882, 1254938, 1254945, 1255383, 1255495, 1255802, 1255897, 1256065,
    1256231, 1256316, 1256322, 1256339, 1256366, 1256837, 1257026, 1257122, 1257982, 1258395, 1258719, 1258816,
    1258826, 1258880, 1259441, 1259642, 1259828, 1259921, 1260096, 1260205, 1260353, 1260383, 1260385, 1260463,
    1260609, 1261042, 1261283, 1261756, 1261803, 1261871, 1262083, 1262290, 1262481, 1262528, 1262925, 1262951,
    1263015, 1263188, 1263719, 1263869, 1263932, 1264105, 1264551, 1264783, 1264813, 1265036, 1265081, 1265137,
    1265570, 1265799, 1265855, 1266114, 1266274, 1266486, 1267641, 1268108, 1268385, 1269026, 1269281, 1269410,
    1269926, 1270084, 1270780, 1271023, 1271339, 1271745, 1272275, 1272448, 1272844, 1273199, 1273267, 1273538,
    1273989, 1274099, 1274183, 1274710, 1274764, 1275038, 1275074, 1275248, 1275401, 1275739, 1276147, 1276633,
    1277033, 1277161, 1277229, 1277444, 1278017, 1278047, 1278572, 1278604, 1278629, 1278656, 1279743, 1280104,
    1280137, 1280144, 1280302, 1280342, 1280404, 1280907, 1280941, 1281158, 1281188, 1281395, 1281627, 1281919,
    1282012, 1282036, 1282615, 1282661, 1283272, 1283397, 1283411, 1283486, 1283490, 1283821, 1283901, 1284088,
    1285006, 1285014, 1285177, 1285209, 1285255, 1285667, 1285705, 1285902, 1286390, 1286618, 1286894, 1287204,
    1287786, 1287812, 1287908, 1288674, 1288943, 1289175, 1289296, 1289508, 1289718, 1289937, 1290527, 1291448,
    1292140, 1292184, 1292330, 1292694, 1292809, 1293239, 1293340, 1293418, 1293525, 1294146, 1294284, 1294386,
    1294403, 1294412, 1294460, 1294805, 1294901, 1294986, 1295020, 1295456, 1295737, 1296101, 1296398, 1296629,
    1296784, 1297127, 1297421, 1297852, 1297995, 1298561, 1298949, 1299561, 1299704, 1299836, 1299935, 1299991,
    1300032, 1300045, 1300123, 1300148, 1300347, 1301086, 1301164, 1301242, 1302100, 1302724, 1302738, 1302852,
    1302911, 1303026, 1303589, 1303709, 1303882, 1305315, 1306232, 1306363, 1306709, 1307269, 1307661, 1307684,
    1307715, 1307739, 1307812, 1307858, 1307981, 1308006, 1308040, 1308255, 1308573, 1309162, 1309313, 1309653,
    1310285, 1310329, 1310596, 1311035, 1311053, 1311512, 1312112, 1312179, 1312522, 1312657, 1313167, 1313948,
    1314004, 1314014, 1314412, 1314625, 1314721, 1314861, 1314915, 1314951, 1315299, 1315567, 1315897, 1315969,
    1316535, 1316575, 1316945, 1317023, 1317298, 1317406, 1317752, 1317894, 1318142, 1318554, 1319718, 1319782,
    1319886, 1319907, 1320024, 1320093, 1320327, 1320550, 1320617, 1321328, 1321379, 1321885, 1322139, 1322309,
    1322689, 1322813, 1322829, 1322941, 1323685, 1323916, 1325289, 1326091, 1326117, 1326262, 1326277, 1326355,
    1326401, 1326727, 1326739, 1326824, 1327903, 1328266, 1328920, 1329555, 1330346, 1330349, 1330919, 1331472,
    1331525, 1331733, 1331771, 1331874, 1332174, 1332280, 1332480, 1332693, 1333604, 1334276, 1334447, 1334504,
    1334562, 1334577, 1334664, 1335248, 1335277, 1335382, 1335491, 1335773, 1336452, 1336823, 1337329, 1337835,
    1337888, 1337898, 1337904, 1338395, 1338473, 1338538, 1339195, 1339326, 1339389, 1339411, 1339708, 1340067,
    1340303, 1340434, 1340478, 1340510, 1340629, 1340723, 1340774, 1340939, 1341595, 1341803, 1341982, 1342007,
    1342092, 1342113, 1342164, 1342271, 1342346, 1342732, 1342908, 1343062, 1343536, 1343710, 1343799, 1343808,
    1343903, 1344141, 1344424, 1344599, 1344608, 1345012, 1345080, 1345265, 1345281, 1345562, 1346238, 1346393,
    1346531, 1346634, 1346863, 1347696, 1347904, 1348741, 1348770, 1348797, 1348810, 1349011, 1349291, 1349408,
    1349544, 1349565, 1349596, 1349611, 1349654, 1349873, 1349953, 1350466, 1350675, 1350821, 1350991, 1351088,
    1351778, 1351923, 1352179, 1353157, 1353955, 1354056, 1354068, 1354394, 1354440, 1354640, 1354689, 1355142,
    1355285, 1355549, 1355790, 1355818, 1355974, 1356292, 1356315, 1356372, 1356700, 1356714, 1356907, 1357277,
    1357302, 1357551, 1358343, 1358705, 1358718, 1358978, 1359283, 1359368, 1359401, 1359462, 1359521, 1359985,
    1360180, 1360406, 1360794, 1360804, 1360869, 1361119, 1361394, 1361485, 1362371, 1362469, 1363063, 1363306,
    1363729, 1363987, 1364036, 1364318, 1364453, 1364482, 1364606, 1364632, 1364836, 1364873, 1365125, 1365613,
    1365869, 1365887, 1365937, 1366218, 1366445, 1367251, 1367368, 1367422, 1367574, 1367677, 1367825, 1368172,
    1368436, 1368649, 1368655, 1368806, 1369011, 1369198, 1369359, 1369489, 1370046, 1370502, 1371800, 1372240,
    1373129, 1373644, 1373696, 1374071, 1374318, 1374364, 1374516, 1374555, 1374797, 1374985, 1375332, 1375540,
    1375640, 1375729, 1375747, 1376178, 1376288, 1376555, 1376808, 1377058, 1377113, 1377639, 1377666, 1377862,
    1377946, 1378029, 1378350, 1378785, 1379069, 1379466, 1379484, 1379599, 1379838, 1379934, 1380007, 1380150,
    1380287, 1380624, 1380823, 1380888, 1381104, 1381112, 1381158, 1381722, 1381803, 1382522, 1384348, 1384386,
    1384590, 1384595, 1384752, 1384903, 1385042, 1385694, 1385873, 1385994, 1386182, 1386192, 1386216, 1386259,
    1386279, 1386883, 1386971, 1387802, 1387834, 1388110, 1389457, 1389512, 1390035, 1390536, 1391060, 1391178,
    1391239, 1391375, 1391483, 1391520, 1391521, 1391701, 1391825, 1392246, 1392663, 1394100, 1394342, 1394901,
    1395337, 1395564, 1396285, 1396315, 1396614, 1396799, 1397185, 1397425, 1397512, 1397904, 1399242, 1399792,
    1400084, 1400240, 1400533, 1400611, 1400722, 1401231, 1401272, 1401368, 1401672, 1401815, 1401916, 1402383,
    1403231, 1403701, 1404440, 1404514, 1404560, 1404719, 1404761, 1405141, 1405162, 1405491, 1405519, 1405592,
    1406002, 1406213, 1406291, 1406332, 1406539, 1407260, 1407391, 1407534, 1407904, 1408688, 1408928, 1409262,
    1409593, 1409835, 1410223, 1410287, 1410762, 1411268, 1412015, 1412180, 1412637, 1414523, 1414725, 1414731,
    1414736, 1415220, 1415229, 1415230, 1415606, 1415767, 1415888, 1415928, 1416490, 1416588, 1416805, 1417164,
    1418148, 1418269, 1418389, 1418631, 1419081, 1419142, 1419254, 1419407, 1419411, 1419657, 1419934, 1420026,
    1420034, 1420115, 1420486, 1420549, 1420812, 1421044, 1421618, 1421991, 1422639, 1423025, 1423107, 1423607,
    1423726, 1423849, 1424064, 1424325, 1424475, 1424637, 1424652, 1424950, 1425166, 1425228, 1425334, 1425861,
    1425902, 1426049, 1426852, 1427092, 1428132, 1428147, 1428423, 1428466, 1428655, 1428683, 1428804, 1428944,
    1429192, 1429915, 1430493, 1430939, 1430994, 1431568, 1431770, 1431820, 1432007, 1432105, 1432381, 1432424,
    1432485, 1432845, 1434297, 1434652, 1434713, 1435044, 1435488, 1435605, 1435733, 1435743, 1435802, 1435915,
    1436119, 1436498, 1436550, 1436622, 1436641, 1437577, 1437623, 1437640, 1438060, 1438117, 1438163, 1438450,
    1438498, 1438626, 1438840, 1439389, 1439432, 1439865, 1439982, 1440052, 1440145, 1440469, 1441131, 1441538,
    1441964, 1442697, 1442732, 1442775, 1442836, 1443117, 1443277, 1443290, 1443363, 1443778, 1443885, 1444968,
    1445015, 1445191, 1445302, 1445349, 1445522, 1445608, 1445722, 1445813, 1446132, 1446353, 1446842, 1447688,
    1447971, 1447981, 1448096, 1448307, 1448332, 1448401, 1448684, 1449024, 1449078, 1449183, 1449631, 1449666,
    1450520, 1450565, 1451225, 1451863, 1452170, 1452200, 1452238, 1452395, 1452984, 1453043, 1453140, 1453698,
    1453959, 1454237, 1455168, 1455987, 1456027, 1456333, 1456391, 1456510, 1456564, 1456895, 1457463, 1457601,
    1457873, 1458191, 1458284, 1458752, 1458768, 1459116, 1459385, 1459396, 1459808, 1459997, 1460013, 1460146,
    1460378, 1460632, 1461249, 1461291, 1461671, 1461839, 1462114, 1462222, 1462734, 1462736, 1462762, 1463208,
    1463739, 1464073, 1464172, 1464285, 1464817, 1465358, 1465587, 1466067, 1466210, 1466366, 1467004, 1467068,
    1467129, 1467250, 1467358, 1467519, 1467616, 1468191, 1468243, 1468691, 1468921, 1469201, 1469220, 1469509,
    1469628, 1470065, 1470558, 1471223, 1471239, 1471708, 1472126, 1472275, 1472844, 1473070, 1473073, 1473086,
    1473181, 1473294, 1473428, 1473518, 1473521, 1473551, 1473568, 1474062, 1474184, 1474328, 1474356, 1474774,
    1474860, 1474876, 1475431, 1475736, 1475950, 1476314, 1476374, 1476979, 1476986, 1477151, 1477300, 1477400,
    1477435, 1477752, 1477962, 1478291, 1479118, 1479516, 1479947, 1480035, 1480097, 1480239, 1480452, 1480611,
    1480711, 1481241, 1482090, 1482095, 1482465, 1482862, 1483117, 1483146, 1484611, 1484787, 1484987, 1485068,
    1485160, 1485312, 1485318, 1486007, 1486056, 1486091, 1486263, 1487058, 1487191, 1487599, 1487661, 1487712,
    1488102, 1488205, 1488265, 1488812, 1488941, 1489040, 1489086, 1489155, 1489826, 1490110, 1490402, 1490647,
    1490774, 1490798, 1491064, 1491231, 1491740, 1491955, 1491962, 1492293, 1492420, 1492635, 1492712, 1492854,
    1493004, 1493836, 1493888, 1494406, 1494553, 1494932, 1494947, 1495079, 1495126, 1495761, 1496099, 1496545,
    1496629, 1496967, 1497047, 1497373, 1497488, 1497624, 1497701, 1498548, 1498847, 1498934, 1498995, 1499276,
    1499300, 1499367, 1499578, 1499624, 1499655, 1499677, 1499754, 1500188, 1500283, 1500790, 1500949, 1501120,
    1501516, 1501548, 1501635, 1501874, 1502336, 1502417, 1502422, 1502532, 1502636, 1502736, 1502933, 1503587,
    1503604, 1503733, 1503906, 1504935, 1505112, 1505516, 1505868, 1507243, 1507244, 1507248, 1507261, 1507478,
    1507559, 1507604, 1507774, 1507848, 1507882, 1508015, 1508024, 1508260, 1508384, 1508857, 1508901, 1509039,
    1509113, 1509231, 1509278, 1509790, 1510252, 1510301, 1510367, 1510472, 1510830, 1510935, 1511510, 1511616,
    1511617, 1511738, 1511834, 1512106, 1512172, 1512612, 1512626, 1512754, 1512866, 1513322, 1514411, 1514455,
    1515035, 1515141, 1515337, 1515706, 1515750, 1515870, 1515924, 1516032, 1516425, 1516721, 1516785, 1517595,
    1517708, 1517776, 1518647, 1518890, 1519145, 1519455, 1519518, 1520085, 1520179, 1520287, 1520914, 1521399,
    1521466, 1521927, 1522385, 1522410, 1522564, 1523134, 1523214, 1523635, 1523686, 1524015, 1524221, 1524509,
    1524511, 1524633, 1525177, 1525243, 1525551, 1525611, 1525831, 1526112, 1526207, 1526281, 1526334, 1527308,
    1527317, 1527537, 1527708, 1527714, 1528130, 1528427, 1529326, 1529548, 1529637, 1530084, 1530691, 1530740,
    1531041, 1531383, 1531487, 1531763, 1531782, 1531800, 1531973, 1532125, 1532370, 1532404, 1532589, 1532722,
    1532958, 1533072, 1533217, 1533540, 1533688, 1533891, 1533957, 1534030, 1534307, 1534557, 1535388, 1535495,
    1535563, 1535698, 1535704, 1536015, 1536019, 1536212, 1536690, 1537955, 1538078, 1538141, 1538421, 1538678,
    1538946, 1539049, 1539212, 1539255, 1539275, 1539454, 1539804, 1540043, 1540105, 1540118, 1540519, 1540526,
    1540673, 1540754, 1540857, 1541046, 1541428, 1541709, 1542024, 1542089, 1542170, 1542308, 1542377, 1542571,
    1543288, 1543554, 1543786, 1544381, 1544385, 1544643, 1545096, 1545773, 1545812, 1546087, 1546142, 1546409,
    1547173, 1547350, 1547605, 1547764, 1548147, 1548619, 1549205, 1549899, 1550806, 1551473, 1551492, 1551774,
    1551916, 1552600, 1553262, 1553413, 1553455, 1553951, 1554588, 1555241, 1555460, 1555478, 1556507, 1556549,
    1556680, 1557203, 1557522, 1557670, 1557938, 1558150, 1558405, 1559052, 1559156, 1559259, 1559306, 1559538,
    1559666, 1559793, 1560099, 1560196, 1560602, 1560779, 1560905, 1561215, 1561492, 1561554, 1562137, 1562511,
    1562634, 1563215, 1563900, 1564405, 1564812, 1564879, 1564918, 1565032, 1565215, 1565332, 1565454, 1565614,
    1565819, 1566312, 1566991, 1567139, 1567351, 1568108, 1569051, 1569137, 1569362, 1569402, 1569747, 1570538,
    1570809, 1570849, 1570936, 1571417, 1571577, 1571950, 1572186, 1572210, 1572247, 1572249, 1572278, 1572372,
    1572578, 1572625, 1572757, 1572885, 1573437, 1573765, 1574414, 1574468, 1574583, 1574867, 1574907, 1575023,
    1575149, 1575463, 1575715, 1575955, 1576078, 1576165, 1576287, 1576438, 1576799, 1577106, 1577394, 1577423,
    1577507, 1577641, 1577651, 1577775, 1578331, 1578622, 1578886, 1579105, 1579550, 1580244, 1580301, 1580598,
    1580749, 1581174, 1581847, 1582316, 1582465, 1582831, 1582934, 1582970, 1583251, 1583348, 1583353, 1583390,
    1583479, 1583617, 1583751, 1583808, 1583987, 1584299, 1584375, 1585316, 1585706, 1586061, 1586452, 1586807,
    1586896, 1587188, 1587225, 1587312, 1587514, 1588530, 1588692, 1588806, 1588929, 1589601, 1589738, 1589816,
    1589950, 1590312, 1590548, 1590576, 1590733, 1590766, 1591027, 1591070, 1591517, 1591999, 1592156, 1592496,
    1592803, 1593055, 1593095, 1593110, 1593135, 1593783, 1593801, 1593857, 1593863, 1594263, 1594385, 1594398,
    1594495, 1594973, 1595052, 1595166, 1595867, 1595980, 1596138, 1596276, 1596368, 1596445, 1597116, 1597185,
    1597674, 1598039, 1598090, 1598454, 1598730, 1599002, 1599092, 1599135, 1599478, 1600207, 1600375, 1600515,
    1600560, 1600940, 1601240, 1601729, 1601897, 1601917, 1602051, 1602244, 1602770, 1603015, 1603488, 1603859,
    1604193, 1604267, 1604594, 1604638, 1604909, 1604921, 1605198, 1605421, 1605622, 1605838, 1606160, 1606557,
    1607532, 1607561, 1607620, 1608380, 1608389, 1608658, 1608902, 1609303, 1609509, 1609526, 1609569, 1609973,
    1610103, 1610227, 1610413, 1610611, 1610871, 1610920, 1611042, 1611061, 1611689, 1611927, 1612007, 1612412,
    1612567, 1612748, 1612751, 1612846, 1612850, 1613467, 1613742, 1613981, 1614213, 1614706, 1614827, 1614847,
    1614984, 1615596, 1615616, 1615876, 1616147, 1616266, 1616377, 1616616, 1617249, 1618044, 1618074, 1618187,
    1618472, 1618499, 1618529, 1618677, 1619063, 1619366, 1620315, 1620875, 1621871, 1622143, 1622461, 1622534,
    1623100, 1623755, 1623838, 1623947, 1623960, 1624081, 1624141, 1624691, 1625602, 1625791, 1626066, 1626258,
    1626927, 1627017, 1627039, 1627095, 1627099, 1627283, 1627652, 1629322, 1629353, 1629386, 1629885, 1630379,
    1630453, 1630681, 1630808, 1630884, 1631198, 1631398, 1631522, 1631776, 1631955, 1632043, 1632294, 1632619,
    1633357, 1633562, 1634061, 1634111, 1634116, 1634210, 1634225, 1634294, 1634535, 1634754, 1635220, 1635531,
    1635796, 1636650, 1636774, 1636946, 1637234, 1637288, 1637296, 1637363, 1637519, 1637641, 1637869, 1638052,
    1638124, 1638437, 1638620, 1638906, 1639428, 1639532, 1639705, 1639744, 1639833, 1640219, 1640515, 1640519,
    1640620, 1640820, 1640983, 1641079, 1641874, 1641925, 1642103, 1642166, 1642172, 1643091, 1643408, 1643414,
    1643463, 1643528, 1643549, 1643825, 1644189, 1644440, 1644588, 1644758, 1644759, 1645008, 1645128, 1645629,
    1645674, 1645675, 1645677, 1646030, 1646361, 1646376, 1647189, 1647404, 1647539, 1647857, 1648295, 1648449,
    1648507, 1649290, 1649729, 1650062, 1650101, 1650322, 1650349, 1650416, 1650435, 1650458, 1650904, 1650957,
    1651609, 1651822, 1653051, 1654329, 1654505, 1654849, 1655207, 1655253, 1655348, 1655361, 1655365, 1655423,
    1655600, 1655820, 1655882, 1656274, 1656344, 1656522, 1656576, 1656661, 1656889, 1656906, 1657540, 1657962,
    1658364, 1658392, 1658530, 1658794, 1658852, 1658870, 1659023, 1659156, 1659809, 1660142, 1660145, 1660288,
    1660320, 1660442, 1660505, 1660511, 1660758, 1660836, 1661413, 1661904, 1662045, 1662373, 1662466, 1662553,
    1662860, 1663108, 1663252, 1663347, 1663976, 1663989, 1664021, 1664132, 1664263, 1664748, 1665465, 1665488,
    1665782, 1665802, 1666050, 1666179, 1666257, 1666262, 1666335, 1666561, 1666929, 1666999, 1667031, 1667381,
    1667801, 1668370, 1668416, 1668831, 1669322, 1669890, 1669895, 1670072, 1671003, 1671005, 1671724, 1671917,
    1671949, 1672268, 1672292, 1672678, 1673015, 1673168, 1674014, 1674351, 1674607, 1674927, 1674959, 1674968,
    1675542, 1675575, 1675687, 1675937, 1676335, 1676624, 1677103, 1677487, 1677517, 1677745, 1677853, 1677941,
    1678052, 1678080, 1678976, 1679509, 1679713, 1679766, 1680047, 1680573, 1680592, 1680629, 1680891, 1681144,
    1681628, 1681670, 1681693, 1681803, 1682037, 1682141, 1682148, 1682753, 1682983, 1683556, 1683756, 1683925,
    1684212, 1684521, 1684917, 1684989, 1685162, 1685454, 1685468, 1685697, 1685921, 1685986, 1686120, 1686221,
    1686513, 1687130, 1687198, 1687565, 1687708, 1687984, 1688367, 1688419, 1688689, 1688726, 1688965, 1688968,
    1689032, 1689117, 1689155, 1689208, 1689350, 1689922, 1690162, 1690463, 1690520, 1690870, 1691004, 1691184,
    1691380, 1691443, 1691474, 1691551, 1691881, 1691889, 1692024, 1692126, 1692609, 1692668, 1693151, 1693186,
    1693190, 1693498, 1693620, 1693838, 1694251, 1694862, 1694967, 1695266, 1695380, 1695464, 1695497, 1696020,
    1696266, 1696532, 1697101, 1697305, 1697694, 1698511, 1698728, 1698765, 1698831, 1700633, 1700809, 1701094,
    1701267, 1701450, 1701646, 1701895, 1702119, 1702530, 1702629, 1702784, 1703471, 1703491, 1703969, 1704276,
    1704318, 1704377, 1704421, 1704522, 1704817, 1705257, 1705763, 1706238, 1706316, 1707367, 1707452, 1707591,
    1707622, 1707719, 1707873, 1708227, 1708693, 1708760, 1709455, 1709638, 1709970, 1710262, 1710618, 1710853,
    1710874, 1710923, 1711035, 1711190, 1711467, 1711468, 1712389, 1712682, 1712702, 1714234, 1714723, 1714853,
    1715138, 1715169, 1715738, 1715786, 1715911, 1715959, 1716026, 1716447, 1716980, 1717189, 1717296, 1717690,
    1718010, 1718730, 1718760, 1718777, 1718869, 1719002, 1719273, 1719783, 1719806, 1720035, 1720920, 1720991,
    1721044, 1721102, 1721806, 1722066, 1722125, 1722397, 1722779, 1723207, 1723528, 1723697, 1724134, 1724230,
    1724380, 1724493, 1724933, 1725142, 1725455, 1726720, 1726735, 1727638, 1727782, 1728097, 1728345, 1729194,
    1729629, 1729748, 1729940, 1730028, 1730035, 1730398, 1730569, 1731203, 1731504, 1731671, 1731746, 1731968,
    1732114, 1732140, 1732151, 1732182, 1732549, 1732864, 1733046, 1733831, 1734041, 1734512, 1734713, 1735357,
    1735632, 1735779, 1736283, 1736394, 1736583, 1736827, 1736846, 1737347, 1737443, 1737901, 1738097, 1738728,
    1738908, 1739130, 1739386, 1739484, 1739857, 1739943, 1740393, 1741063, 1741326, 1741395, 1741506, 1741737,
    1741840, 1742289, 1742576, 1742591, 1742751, 1743084, 1743263, 1743343, 1743780, 1743861, 1744112, 1744232,
    1744292, 1744823, 1745330, 1745900, 1746000, 1746272, 1746454, 1746517, 1746833, 1747389, 1747713, 1747821,
    1748007, 1748195, 1748330, 1748639, 1748792, 1748988, 1749118, 1749157, 1749900, 1749975, 1750677, 1751442,
    1751958, 1752377, 1752547, 1753125, 1753147, 1753373, 1753704, 1753811, 1754064, 1754183, 1754323, 1754484,
    1754577, 1754822, 1754829, 1754885, 1755020, 1755132, 1755185, 1756970, 1757680, 1758099, 1759092, 1759369,
    1759697, 1760067, 1760115, 1760204, 1760252, 1760736, 1761047, 1761197, 1761210, 1761236, 1761266, 1761599,
    1761976, 1762116, 1762283, 1762474, 1762578, 1762582, 1762830, 1763158, 1763191, 1763784, 1763807, 1763846,
    1764063, 1765060, 1765267, 1765403, 1765408, 1765549, 1765936, 1766172, 1766294, 1766814, 1766855, 1766923,
    1767347, 1767543, 1768316, 1768820, 1769037, 1769174, 1769296, 1769568, 1769707, 1769992, 1771098, 1771796,
    1772020, 1772661, 1772732, 1773042, 1773233, 1773878, 1774010, 1774125, 1775106, 1775680, 1775691, 1776236,
    1776384, 1776635, 1777011, 1777034, 1777210, 1777257, 1777781, 1778232, 1779083, 1779404, 1779613, 1780263,
    1780463, 1780754, 1781849, 1781897, 1782016, 1782157, 1782203, 1782225, 1782343, 1782430, 1782470, 1782533,
    1782991, 1783121, 1783531, 1783816, 1783956, 1784062, 1784836, 1785169, 1785393, 1786123, 1786244, 1787039,
    1787044, 1787569, 1787746, 1787792, 1788034, 1788476, 1788733, 1788819, 1788924, 1788934, 1788944, 1789057,
    1790098, 1790836, 1791629, 1791785, 1792031, 1792149, 1792221, 1792302, 1792366, 1792941, 1792972, 1793049,
    1793409, 1793649, 1793678, 1793737, 1794082, 1794142, 1794379, 1794418, 1794522, 1794894, 1795185, 1795254,
    1795578, 1795762, 1795885, 1796264, 1796368, 1796445, 1796743, 1797073, 1797147, 1797356, 1797545, 1798014,
    1798135, 1798306, 1798411, 1798426, 1799150, 1799183, 1800621, 1801271, 1801351, 1801412, 1801861, 1802044,
    1802131, 1802491, 1802565, 1802603, 1802682, 1803444, 1803825, 1804305, 1804665, 1805168, 1805592, 1805680,
    1805761, 1805804, 1806269, 1806299, 1806680, 1806957, 1806968, 1807522, 1807744, 1808550, 1808828, 1809196,
    1809232, 1809697, 1810091, 1810465, 1810657, 1810661, 1810771, 1810838, 1811544, 1812743, 1812806, 1814000,
    1814062, 1814150, 1814320, 1814486, 1814602, 1814930, 1815742, 1815990, 1816493, 1816586, 1817101, 1817143,
    1817777, 1817811, 1818151, 1818342, 1818376, 1818475, 1818503, 1818755, 1818840, 1819030, 1819065, 1819409,
    1819523, 1819874, 1820048, 1820373, 1820637, 1820798, 1820826, 1821029, 1821293, 1821607, 1821700, 1821826,
    1822026, 1822086, 1822339, 1822705, 1822879, 1823178, 1823700, 1824086, 1824128, 1824180, 1824252, 1824766,
    1824768, 1824833, 1825165, 1825689, 1825769, 1825952, 1826023, 1826263, 1826567, 1826573, 1826583, 1827136,
    1827812, 1828329, 1828428, 1828627, 1828663, 1828674, 1828960, 1829288, 1829471, 1829519, 1829611, 1829933,
    1830156, 1830270, 1830285, 1830621, 1830855, 1830922, 1830996, 1831360, 1831651, 1831701, 1831857, 1831940,
    1832042, 1832455, 1832663, 1832946, 1833011, 1833093, 1833649, 1833741, 1833901, 1834215, 1834468, 1834508,
    1835670, 1836860, 1837028, 1837034, 1837165, 1837430, 1839014, 1839209, 1839258, 1839584, 1839799, 1840195,
    1840224, 1840240, 1840503, 1840959, 1841203, 1841268, 1841435, 1841450, 1842003, 1842326, 1842799, 1842989,
    1843453, 1843709, 1843937, 1844102, 1844289, 1844727, 1845124, 1845448, 1846035, 1846561, 1846598, 1846707,
    1846862, 1846977, 1846979, 1846985, 1847894, 1848407, 1848655, 1848785, 1848904, 1849018, 1849326, 1849459,
    1849601, 1849622, 1849931, 1850416, 1850690, 1851386, 1851611, 1851652, 1851797, 1852608, 1853229, 1853334,
    1853499, 1853667, 1853670, 1853954, 1854169, 1854665, 1854677, 1855061, 1855828, 1856027, 1856040, 1856047,
    1856064, 1856302, 1856368, 1856414, 1856561, 1857245, 1857289, 1857301, 1857460, 1857648, 1857826, 1857879,
    1857916, 1857939, 1857962, 1858068, 1858075, 1859046, 1859143, 1859619, 1860518, 1860577, 1860707, 1861575,
    1861622, 1862029, 1862151, 1862331, 1862855, 1863008, 1863246, 1863367, 1863368, 1863685, 1863908, 1864238,
    1864745, 1865126, 1865217, 1865463, 1865556, 1865558, 1865575, 1865602, 1865629, 1865844, 1866469, 1866556,
    1866608, 1866778, 1866911, 1867154, 1867188, 1867294, 1867774, 1867825, 1868260, 1869060, 1869294, 1869370,
    1869584, 1869743, 1869842, 1870859, 1870987, 1871051, 1871149, 1871480, 1871542, 1871722, 1871883, 1871907,
    1872165, 1872328, 1872648, 1872834, 1873460, 1873911, 1874040, 1874045, 1874506, 1874938, 1875244, 1875309,
    1875387, 1875426, 1876355, 1876435, 1876528, 1876642, 1876955, 1877235, 1877613, 1878179, 1878811, 1878956,
    1879076, 1879764, 1879783, 1880079, 1880093, 1880268, 1880303, 1880440, 1881417, 1881554, 1881571, 1881700,
    1881967, 1882366, 1882438, 1882516, 1882933, 1882952, 1883196, 1883428, 1883787, 1884002, 1884780, 1884946,
    1885213, 1885247, 1885351, 1885979, 1886062, 1886090, 1886507, 1887158, 1887219, 1887425, 1887717, 1887985,
    1888142, 1888303, 1888680, 1888846, 1888910, 1888971, 1888996, 1889140, 1889144, 1889253, 1889741, 1889817,
    1890133, 1890274, 1890346, 1890423, 1890502, 1890658, 1892183, 1892375, 1893216, 1893277, 1893419, 1893478,
    1893590, 1893931, 1894048, 1894177, 1894222, 1894271, 1894283, 1895252, 1895284, 1895545, 1895590, 1895597,
    1896337, 1896718, 1897384, 1897487, 1897507, 1897527, 1897858, 1898044, 1898127, 1898147, 1898418, 1898437,
    1898758, 1898965, 1899068, 1899195, 1899634, 1899705, 1900026, 1900107, 1900274, 1900745, 1901219, 1901748,
    1901805, 1902809, 1903125, 1903651, 1904095, 1904104, 1904331, 1904629, 1904668, 1904679, 1904987, 1905989,
    1906082, 1906096, 1906178, 1906725, 1906825, 1906837, 1907321, 1907455, 1907753, 1907823, 1907860, 1907889,
    1908596, 1909170, 1909564, 1910115, 1910327, 1910890, 1910977, 1910997, 1911033, 1911684, 1911777, 1912226,
    1912260, 1912308, 1912384, 1913223, 1913391, 1913403, 1913545, 1913560, 1913882, 1914063, 1914317, 1914395,
    1914411, 1914631, 1915393, 1915585, 1915759, 1915993, 1916248, 1916461, 1917047, 1917316, 1917820, 1918182,
    1918687, 1918835, 1919371, 1919597, 1919757, 1920416, 1920449, 1921178, 1921294, 1921320, 1921552, 1921879,
    1922084, 1922719, 1922740, 1923086, 1923257, 1923281, 1923665, 1924058, 1924263, 1924497, 1924659, 1924901,
    1924913, 1925003, 1925019, 1925402, 1925882, 1926106, 1926272, 1926318, 1926327, 1926525, 1926803, 1926830,
    1927121, 1927160, 1927455, 1928294, 1928372, 1928503, 1928512, 1928585, 1928685, 1929459, 1929471, 1929543,
    1929946, 1930141, 1930164, 1930774, 1931459, 1931510, 1932157, 1932171, 1933073, 1933128, 1934494, 1934599,
    1934674, 1934822, 1935381, 1935472, 1935810, 1935977, 1936097, 1936548, 1936987, 1937111, 1937152, 1937762,
    1937906, 1937914, 1938063, 1938373, 1938623, 1938757, 1939168, 1939868, 1939892, 1939998, 1940089, 1940198,
    1940714, 1940793, 1940856, 1941533, 1941912, 1942302, 1942748, 1942756, 1943043, 1943101, 1943104, 1943200,
    1943557, 1943726, 1944646, 1944916, 1945093, 1945109, 1945327, 1945929, 1946285, 1946403, 1946567, 1946670,
    1947155, 1947864, 1947981, 1948075, 1948437, 1948850, 1949051, 1949391, 1949606, 1950365, 1950584, 1951138,
    1951445, 1951583, 1951837, 1952235, 1952583, 1953640, 1953680, 1954109, 1954173, 1954430, 1954723, 1954970,
    1955074, 1955553, 1955622, 1955826, 1957315, 1957385, 1957562, 1957807, 1957822, 1958014, 1958037, 1958067,
    1958143, 1958149, 1958152, 1958594, 1958614, 1959537, 1959761, 1960105, 1960438, 1960452, 1961216, 1961369,
    1961964, 1962005, 1962310, 1962382, 1962847, 1963194, 1963203, 1963528, 1963652, 1964342, 1964354, 1964358,
    1964360, 1964587, 1964595, 1964603, 1964862, 1964925, 1965489, 1965607, 1966190, 1966247, 1966267, 1966865,
    1967025, 1967253, 1967500, 1967565, 1967742, 1967815, 1968423, 1968848, 1969073, 1969106, 1969162, 1969541,
    1969919, 1969970, 1970169, 1970522, 1970615, 1971156, 1971513, 1971848, 1972056, 1972541, 1972553, 1972643,
    1973192, 1973534, 1973594, 1974762, 1975295, 1975471, 1976280, 1976291, 1976415, 1976797, 1977083, 1977632,
    1977656, 1977848, 1977970, 1978049, 1978172, 1978881, 1978927, 1978993, 1979047, 1979264, 1979342, 1979465,
    1979577, 1980019, 1980085, 1980420, 1980433, 1980451, 1980663, 1981767, 1982364, 1982440, 1983611, 1983756,
    1984168, 1984298, 1984440, 1984601, 1985685, 1986220, 1986327, 1986717, 1987057, 1987245, 1987254, 1987439,
    1987446, 1987727, 1988295, 1988497, 1988536, 1988559, 1988770, 1988952, 1989313, 1989419, 1989758, 1989967,
    1990304, 1990378, 1990431, 1991421, 1991476, 1991930, 1992032, 1992060, 1992406, 1992644, 1992686, 1992827,
    1993050, 1993252, 1993692, 1993733, 1993938, 1994314, 1994807, 1995075, 1995692, 1996295, 1997097, 1997276,
    1997543, 1997793, 1997918, 1997971, 1998104, 1998986, 1998991, 1999058, 1999271, 1999883
  }

(***************************************************************************)
(* f'{n}' for a non-negative integer: its decimal digits, most significant *)
(* first.                                                                  *)
(***************************************************************************)
RECURSIVE DecStr(_)
DecStr(n) == IF n < 10 THEN <<n>> ELSE Append(DecStr(n \div 10), n % 10)

RECURSIVE GuessKeyFrom(_, _)
GuessKeyFrom(acc, digits) ==
  IF digits = <<>> THEN acc
  ELSE GuessKeyFrom(10 * acc + Head(digits), Tail(digits))

\* the table key of a digit string
GuessKey(digits) == GuessKeyFrom(1, digits)

\* the guess with the two numbers in the other order
Guess_Swapped(last_proof, proof) == DecStr(proof) \o DecStr(last_proof)

\* f'{last_proof}{proof}'
Guess(last_proof, proof) == DecStr(last_proof) \o DecStr(proof)

\* the guesses the table decides
GuessTabulated(last_proof, proof) == Len(Guess(last_proof, proof)) <= 6

\* Blockchain.valid_proof
valid_proof(last_proof, proof) ==
  GuessKey(Guess(last_proof, proof)) \in ZeroPrefixedGuesses

(***************************************************************************)
(* Blockchain.proof_of_work: proof = 0; while valid_proof(last_proof,      *)
(* proof) is False: proof += 1; return proof.  The loop leaves with the    *)
(* first value of proof, counting up from its start, at which the loop     *)
(* condition fails.  The search is followed as far as the table reaches;   *)
(* -1 stands for a search that leaves it.                                  *)
(***************************************************************************)
\* proof = 0
PowStart == 0

\* variant: the arguments of valid_proof exchanged
PowContinue_Swapped(last_proof, proof) == valid_proof(proof, last_proof) = FALSE

\* the loop condition: valid_proof(last_proof, proof) is False
PowContinue(last_proof, proof) == valid_proof(last_proof, proof) = FALSE

\* the largest proof whose guess the table decides
PowLimit(last_proof) == 10 ^ (6 - Len(DecStr(last_proof))) - 1

\* the loop has run from PowStart to proof and leaves there
PowLeavesAt(last_proof, proof) ==
  /\ ~PowContinue(last_proof, proof)
  /\ \A earlier \in PowStart..(proof - 1) : PowContinue(last_proof, earlier)

proof_of_work(last_proof) ==
  IF \E proof \in PowStart..PowLimit(last_proof) : ~PowContinue(last_proof, proof)
  THEN CHOOSE proof \in PowStart..PowLimit(last_proof) : PowLeavesAt(last_proof, proof)
  ELSE -1

(***************************************************************************)
(* Blockchain.hash: json.dumps(block, sort_keys=True) followed by SHA-256. *)
(* The serialisation lists the values in the order of the sorted keys      *)
(* (index, previous_hash, proof, timestamp, transactions; inside a         *)
(* transaction amount, recipient, sender), strings by a character code.    *)
(* The digest is a polynomial digest of HashMod values.                    *)
(***************************************************************************)
StrCode(s) ==
  CASE s = "a" -> 11
    [] s = "b" -> 12
    [] s = "0" -> 13
    [] s = node_identifier -> 14
    [] OTHER -> 15

RECURSIVE DumpTransactions(_)
DumpTransactions(txs) ==
  IF txs = <<>> THEN <<>>
  ELSE <<Head(txs).amount, StrCode(Head(txs).recipient), StrCode(Head(txs).sender)>>
       \o DumpTransactions(Tail(txs))

DumpValue(x) ==
  CASE x.t = "none" -> <<0>>
    [] x.t = "int" -> <<1, x.v>>
    [] x.t = "str" -> <<2, x.v>>

json_dumps(block) ==
  <<block.index>> \o DumpValue(block.previous_hash)
    \o <<block.proof, block.timestamp, Len(block.transactions)>>
    \o DumpTransactions(block.transactions)

RECURSIVE DigestFrom(_, _)
DigestFrom(h, bytes) ==
  IF bytes = <<>> THEN h
  ELSE DigestFrom((h * 31 + Head(bytes) + 7) % HashMod, Tail(bytes))

sha256(bytes) == DigestFrom(17 % HashMod, bytes)

\* Blockchain.hash
hash(block) == sha256(json_dumps(block))

(***************************************************************************)
(* Blockchain.hash on a dict as Python holds it: its items in the order in *)
(* which the keys were inserted, each item a pair of key and value.        *)
(* sort_keys=True orders the items by key before they are written.         *)
(***************************************************************************)
BlockKeys == {"index", "timestamp", "transactions", "proof", "previous_hash"}

\* the place of a key among the keys of a block in string order
KeyRank(k) ==
  CASE k = "index" -> 1
    [] k = "previous_hash" -> 2
    [] k = "proof" -> 3
    [] k = "timestamp" -> 4
    [] k = "transactions" -> 5

\* item put in its place in a sequence of items that is sorted by key
RECURSIVE InsertItem(_, _)
InsertItem(item, sorted) ==
  IF sorted = <<>> THEN <<item>>
  ELSE IF KeyRank(item[1]) <= KeyRank(Head(sorted)[1]) THEN <<item>> \o sorted
  ELSE <<Head(sorted)>> \o InsertItem(item, Tail(sorted))

\* the items sorted by key
RECURSIVE SortItems(_)
SortItems(items) ==
  IF items = <<>> THEN <<>> ELSE InsertItem(Head(items), SortItems(Tail(items)))

\* the value of one item as json.dumps writes it
DumpItem(item) ==
  CASE item[1] = "previous_hash" -> DumpValue(item[2])
    [] item[1] = "transactions" -> <<Len(item[2])>> \o DumpTransactions(item[2])
    [] OTHER -> <<item[2]>>

RECURSIVE DumpItems(_)
DumpItems(items) ==
  IF items = <<>> THEN <<>> ELSE DumpItem(Head(items)) \o DumpItems(Tail(items))

\* variant: json.dumps(block) without sort_keys
json_dumps_dict_Unsorted(items) == DumpItems(items)

\* json.dumps(block, sort_keys=True)
json_dumps_dict(items) == DumpItems(SortItems(items))

\* Blockchain.hash on the dict
hash_dict(items) == sha256(json_dumps_dict(items))

\* the dict of a block with its keys inserted in the given order
ItemsOf(block, order) == [i \in 1..Len(order) |-> <<order[i], block[order[i]]>>]

\* the order in which create_block inserts the keys
CreationOrder == <<"index", "timestamp", "transactions", "proof", "previous_hash">>

(***************************************************************************)
(* The Blockchain object: L = [chain, current_transactions].  Every method *)
(* returns the object after the call together with the value returned.     *)
(***************************************************************************)
\* Blockchain.last_block
last_block(L) == L.chain[Len(L.chain)]

\* variant: the index counted from zero
NewBlock_IndexFromZero(L, proof, previous_hash, now) ==
  [index |-> Len(L.chain),
   timestamp |-> now,
   transactions |-> L.current_transactions,
   proof |-> proof,
   previous_hash |-> previous_hash]

\* variant: the previous_hash argument dropped for its default
NewBlock_DefaultHash(L, proof, previous_hash, now) ==
  [index |-> Len(L.chain) + 1,
   timestamp |-> now,
   transactions |-> L.current_transactions,
   proof |-> proof,
   previous_hash |-> None]

\* the block built by create_block
NewBlock(L, proof, previous_hash, now) ==
  [index |-> Len(L.chain) + 1,
   timestamp |-> now,
   transactions |-> L.current_transactions,
   proof |-> proof,
   previous_hash |-> previous_hash]

\* variant: the pending transactions are not reset
create_block_KeepsPending(L, proof, previous_hash, now) ==
  LET block == NewBlock(L, proof, previous_hash, now) IN
  [chain |-> Append(L.chain, block),
   current_transactions |-> L.current_transactions,
   ret |-> block]

\* Blockchain.create_block
create_block(L, proof, previous_hash, now) ==
  LET block == NewBlock(L, proof, previous_hash, now) IN
  [chain |-> Append(L.chain, block),
   current_transactions |-> <<>>,
   ret |-> block]

\* the dict built by create_transaction
NewTransaction(sender, recipient, amount) ==
  [sender |-> sender, recipient |-> recipient, amount |-> amount]

\* variant: the new transaction goes to the front of the list
create_transaction_Prepends(L, sender, recipient, amount) ==
  [chain |-> L.chain,
   current_transactions |->
     <<NewTransaction(sender, recipient, amount)>> \o L.current_transactions,
   ret |-> last_block(L).index + 1]

\* variant: the index of the last block is returned
create_transaction_ReturnsLast(L, sender, recipient, amount) ==
  [chain |-> L.chain,
   current_transactions |->
     Append(L.current_transactions, NewTransaction(sender, recipient, amount)),
   ret |-> last_block(L).index]

\* variant: the list of the last block is the list appended to
create_transaction_Aliased(L, sender, recipient, amount) ==
  LET tx == NewTransaction(sender, recipient, amount)
      n == Len(L.chain)
  IN [chain |-> [L.chain EXCEPT ![n].transactions = Append(@, tx)],
      current_transactions |-> Append(L.current_transactions, tx),
      ret |-> last_block(L).index + 1]

\* variant: the list is assigned where it should be appended to
create_transaction_Replaces(L, sender, recipient, amount) ==
  [chain |-> L.chain,
   current_transactions |-> <<NewTransaction(sender, recipient, amount)>>,
   ret |-> last_block(L).index + 1]

\* Blockchain.create_transaction
create_transaction(L, sender, recipient, amount) ==
  LET L1 == [chain |-> L.chain,
             current_transactions |->
               Append(L.current_transactions, NewTransaction(sender, recipient, amount))]
  IN [chain |-> L1.chain,
      current_transactions |-> L1.current_transactions,
      ret |-> last_block(L1).index + 1]

GenesisProof == 100
GenesisPreviousHash == PyInt(1)

\* variant: the two arguments of the genesis call exchanged
BlockchainInit_Swapped(now) ==
  create_block([chain |-> <<>>, current_transactions |-> <<>>],
               GenesisPreviousHash.v, PyInt(GenesisProof), now)

\* Blockchain.__init__
BlockchainInit(now) ==
  create_block([chain |-> <<>>, current_transactions |-> <<>>],
               GenesisProof, GenesisPreviousHash, now)

\* the reward transaction of mine()
RewardTransaction == NewTransaction("0", node_identifier, 1)

\* variant: the previous_hash of the last block is passed on
mine_PassesOldHash(L, now) ==
  LET lb == last_block(L)
      last_proof == lb.proof
      proof == proof_of_work(last_proof)
      L1 == create_transaction(L, RewardTransaction.sender,
                               RewardTransaction.recipient, RewardTransaction.amount)
      previous_hash == lb.previous_hash
      L2 == create_block(L1, proof, previous_hash, now)
      block == L2.ret
  IN [chain |-> L2.chain,
      current_transactions |-> L2.current_transactions,
      ret |-> [status |-> 200,
               message |-> "New Block Forged",
               index |-> block.index,
               transactions |-> block.transactions,
               proof |-> block.proof,
               previous_hash |-> block.previous_hash]]

\* variant: the block is forged before the reward is created
mine_RewardAfterBlock(L, now) ==
  LET lb == last_block(L)
      last_proof == lb.proof
      proof == proof_of_work(last_proof)
      previous_hash == PyStr(hash(lb))
      L1 == create_block(L, proof, previous_hash, now)
      block == L1.ret
      L2 == create_transaction(L1, RewardTransaction.sender,
                               RewardTransaction.recipient, RewardTransaction.amount)
  IN [chain |-> L2.chain,
      current_transactions |-> L2.current_transactions,
      ret |-> [status |-> 200,
               message |-> "New Block Forged",
               index |-> block.index,
               transactions |-> block.transactions,
               proof |-> block.proof,
               previous_hash |-> block.previous_hash]]

\* mine() after the search: the reward, the hash of the block read before
\* the search, the new block and the response
mine_forge(L, lb, proof, now) ==
  LET L1 == create_transaction(L, RewardTransaction.sender,
                               RewardTransaction.recipient, RewardTransaction.amount)
      previous_hash == PyStr(hash(lb))
      L2 == create_block(L1, proof, previous_hash, now)
      block == L2.ret
  IN [chain |-> L2.chain,
      current_transactions |-> L2.current_transactions,
      ret |-> [status |-> 200,
               message |-> "New Block Forged",
               index |-> block.index,
               transactions |-> block.transactions,
               proof |-> block.proof,
               previous_hash |-> block.previous_hash]]

\* variant: the search runs on the index of the last block
mine_SolvesOnIndex(L, now) ==
  mine_forge(L, last_block(L), proof_of_work(last_block(L).index), now)

\* variant: the search runs on the hash of the last block
mine_SolvesOnHash(L, now) ==
  mine_forge(L, last_block(L), proof_of_work(hash(last_block(L))), now)

\* mine(): the endpoint's effect on the Blockchain and its response
mine(L, now) ==
  LET lb == last_block(L)
      last_proof == lb.proof
      proof == proof_of_work(last_proof)
  IN mine_forge(L, lb, proof, now)

\* the JSON values a client posts, as request.get_json() returns them.
\* kind "object": a dict, present is the set of its keys; a key that is
\* absent has no value (its field is a fixed filler).  kind "array": a list
\* of strings, present is the set of its elements.  kind "null": None.
Bodies ==
  {values \in [kind : {"object", "array", "null"}, present : SUBSET RequiredKeys,
               sender : Senders, recipient : Recipients, amount : Amounts] :
     /\ values.kind = "array" => values.present \in {{}, RequiredKeys}
     /\ values.kind = "null" => values.present = {}
     /\ (values.kind # "object" \/ "sender" \notin values.present)
          => values.sender = CHOOSE x \in Senders : TRUE
     /\ (values.kind # "object" \/ "recipient" \notin values.present)
          => values.recipient = CHOOSE x \in Recipients : TRUE
     /\ (values.kind # "object" \/ "amount" \notin values.present)
          => values.amount = CHOOSE x \in Amounts : TRUE}

\* the body supplies sender, recipient and amount
SuppliesAll(values) ==
  values.kind = "object" /\ \A k \in RequiredKeys : k \in values.present

\* the response to a handler that raised an exception
InternalServerError == [status |-> 500, message |-> "Internal Server Error", index |-> 0]

\* create_transaction(), the /transactions/new endpoint.  'k in values'
\* raises TypeError on None; values['sender'] raises TypeError on a list.
new_transaction(L, values) ==
  IF values.kind = "null"
  THEN [chain |-> L.chain,
        current_transactions |-> L.current_transactions,
        ret |-> InternalServerError]
  ELSE IF ~(\A k \in RequiredKeys : k \in values.present)
  THEN [chain |-> L.chain,
        current_transactions |-> L.current_transactions,
        ret |-> [status |-> 400, message |-> "Missing values", index |-> 0]]
  ELSE IF values.kind = "array"
  THEN [chain |-> L.chain,
        current_transactions |-> L.current_transactions,
        ret |-> InternalServerError]
  ELSE LET L1 == create_transaction(L, values.sender, values.recipient, values.amount)
       IN [chain |-> L1.chain,
           current_transactions |-> L1.current_transactions,
           ret |-> [status |-> 201, message |-> "Transaction will be added to Block",
                    index |-> L1.ret]]

\* full_chain(), the /chain endpoint
full_chain(L) ==
  [chain |-> L.chain,
   current_transactions |-> L.current_transactions,
   ret |-> [status |-> 200, chain |-> L.chain, length |-> Len(L.chain)]]

(***************************************************************************)
(* State.  chain and current_transactions are the fields of the global     *)
(* Blockchain instance.  op is the last call with its arguments and its    *)
(* result, or the last request with its response.  The history variables:  *)
(* enqueued, the transactions created so far in call order; promised, the  *)
(* index each of these calls returned; commitAt, for each block the number *)
(* of transactions that had been created when it was built; builtBy, for   *)
(* each block the operation that built it and whether that operation       *)
(* passed the hash of the then last block as previous_hash.  pw_ref,       *)
(* pw_proof and pw_pc are the locals and the position of one run of        *)
(* proof_of_work.  threads and heap are the state of the request handlers  *)
(* that run as threads (SpecThreads, SpecOverlap): for each thread its     *)
(* position and its locals, and the identities of the list objects: cur is *)
(* the list that current_transactions is bound to, blocks[i] the list that *)
(* the block at position i holds, fresh the next new list.  The            *)
(* specifications that serve one call at a time leave both as they are.    *)
(***************************************************************************)
VARIABLES chain, current_transactions, op, enqueued, promised, commitAt, builtBy,
          pw_ref, pw_proof, pw_pc, threads, heap

vars == <<chain, current_transactions, op, enqueued, promised, commitAt, builtBy,
          pw_ref, pw_proof, pw_pc, threads, heap>>

ledger == <<chain, current_transactions>>
history == <<enqueued, promised, commitAt, builtBy>>
pw == <<pw_ref, pw_proof, pw_pc>>
conc == <<threads, heap>>

\* the handler threads
Threads == {"t1", "t2"}

\* a transaction and a block that stand for 'no value yet' in a thread's locals
NoTransaction == [sender |-> "", recipient |-> "", amount |-> 0]
NoBlock ==
  [index |-> 0, timestamp |-> 0, transactions |-> <<>>, proof |-> 0,
   previous_hash |-> None]

\* a thread that serves no request
IdleThread ==
  [pc |-> "idle", kind |-> "none", lb |-> 0, proof |-> 0, prev |-> None,
   ref |-> 0, tx |-> NoTransaction, ret |-> 0, block |-> NoBlock, blockList |-> 0]

\* the lists after Blockchain(): list 0 went into the genesis block, list 1
\* is the pending list
InitHeap == [cur |-> 1, blocks |-> <<0>>, fresh |-> 2]

\* the Blockchain instance of the current state
Self == [chain |-> chain, current_transactions |-> current_transactions]

\* blockchain = Blockchain()
Init ==
  /\ \E now \in Timestamps :
       LET B == BlockchainInit(now) IN
       /\ chain = B.chain
       /\ current_transactions = B.current_transactions
  /\ op = [name |-> "init", args |-> <<>>, ret |-> None]
  /\ enqueued = <<>>
  /\ promised = <<>>
  /\ commitAt = <<0>>
  /\ builtBy = <<[by |-> "init", linked |-> FALSE]>>
  /\ pw_ref = 0
  /\ pw_proof = 0
  /\ pw_pc = "idle"
  /\ threads = [t \in Threads |-> IdleThread]
  /\ heap = InitHeap

\* previous_hash arguments a direct caller of create_block passes: the
\* default None and the hash of the last block
PreviousHashInputs == {None, PyStr(hash(last_block(Self)))}

\* a direct call blockchain.create_transaction(sender, recipient, amount)
CreateTransactionCall ==
  /\ Len(enqueued) < MaxEnqueued
  /\ \E sender \in Senders, recipient \in Recipients, amount \in Amounts :
       LET R == create_transaction(Self, sender, recipient, amount) IN
       /\ chain' = R.chain
       /\ current_transactions' = R.current_transactions
       /\ op' = [name |-> "create_transaction",
                 args |-> <<sender, recipient, amount>>, ret |-> R.ret]
       /\ enqueued' = Append(enqueued,
                             [sender |-> sender, recipient |-> recipient, amount |-> amount])
       /\ promised' = Append(promised, R.ret)
  /\ UNCHANGED <<commitAt, builtBy, pw, conc>>

\* a direct call blockchain.create_block(proof, previous_hash)
CreateBlockCall ==
  /\ Len(chain) < MaxChain
  /\ \E proof \in ProofInputs, previous_hash \in PreviousHashInputs, now \in Timestamps :
       LET R == create_block(Self, proof, previous_hash, now) IN
       /\ chain' = R.chain
       /\ current_transactions' = R.current_transactions
       /\ op' = [name |-> "create_block",
                 args |-> <<proof, previous_hash>>, ret |-> R.ret]
       /\ builtBy' = Append(builtBy,
                            [by |-> "create_block",
                             linked |-> previous_hash = PyStr(hash(chain[Len(chain)]))])
  /\ commitAt' = Append(commitAt, Len(enqueued))
  /\ UNCHANGED <<enqueued, promised, pw, conc>>

\* GET /mine
MineRequest ==
  /\ Len(chain) < MaxChain
  /\ Len(enqueued) < MaxEnqueued
  /\ proof_of_work(last_block(Self).proof) # -1
  /\ \E now \in Timestamps :
       LET R == mine(Self, now) IN
       /\ chain' = R.chain
       /\ current_transactions' = R.current_transactions
       /\ op' = [name |-> "mine", args |-> <<>>, ret |-> R.ret]
  /\ enqueued' = Append(enqueued,
                        [sender |-> "0", recipient |-> node_identifier, amount |-> 1])
  /\ promised' = Append(promised,
                        create_transaction(Self, "0", node_identifier, 1).ret)
  /\ commitAt' = Append(commitAt, Len(enqueued) + 1)
  /\ builtBy' = Append(builtBy, [by |-> "mine", linked |-> TRUE])
  /\ UNCHANGED <<pw, conc>>

\* POST /transactions/new
NewTransactionRequest ==
  /\ \E values \in Bodies :
       LET R == new_transaction(Self, values) IN
       /\ R.ret.status = 201 => Len(enqueued) < MaxEnqueued
       /\ chain' = R.chain
       /\ current_transactions' = R.current_transactions
       /\ op' = [name |-> "new_transaction", args |-> <<SuppliesAll(values)>>,
                 ret |-> R.ret]
       /\ IF R.ret.status = 201
          THEN /\ enqueued' = Append(enqueued,
                                     [sender |-> values.sender,
                                      recipient |-> values.recipient,
                                      amount |-> values.amount])
               /\ promised' = Append(promised, R.ret.index)
          ELSE UNCHANGED <<enqueued, promised>>
  /\ UNCHANGED <<commitAt, builtBy, pw, conc>>

\* GET /chain
FullChainRequest ==
  /\ LET R == full_chain(Self) IN
       /\ chain' = R.chain
       /\ current_transactions' = R.current_transactions
       /\ op' = [name |-> "full_chain", args |-> <<>>, ret |-> R.ret]
  /\ UNCHANGED <<history, pw, conc>>

\* direct calls of the Blockchain methods and requests, one at a time
Next ==
  \/ CreateTransactionCall
  \/ CreateBlockCall
  \/ MineRequest
  \/ NewTransactionRequest
  \/ FullChainRequest

Spec == Init /\ [][Next]_vars

\* the three endpoints only, one request at a time
NextApi ==
  \/ MineRequest
  \/ NewTransactionRequest
  \/ FullChainRequest

SpecApi == Init /\ [][NextApi]_vars

(***************************************************************************)
(* Direct calls of the methods that only compute a value.                  *)
(***************************************************************************)
\* blockchain.hash(block) on a block of the chain
HashCall ==
  /\ \E i \in 1..Len(chain) :
       op' = [name |-> "hash", args |-> <<i>>, ret |-> PyStr(hash(chain[i]))]
  /\ UNCHANGED <<ledger, history, pw, conc>>

\* blockchain.last_block
LastBlockCall ==
  /\ op' = [name |-> "last_block", args |-> <<>>, ret |-> last_block(Self)]
  /\ UNCHANGED <<ledger, history, pw, conc>>

\* blockchain.valid_proof(last_proof, proof) on the given arguments
ValidProofCallOn(last_proofs, proofs) ==
  /\ \E last_proof \in last_proofs, proof \in proofs :
       op' = [name |-> "valid_proof", args |-> <<last_proof, proof>>,
              ret |-> valid_proof(last_proof, proof)]
  /\ UNCHANGED <<ledger, history, pw, conc>>

\* blockchain.valid_proof on the proof of the genesis block
ValidProofCall == ValidProofCallOn({GenesisProof}, {0, 226})

\* blockchain.proof_of_work(last_proof) on the proof of the last block
ProofOfWorkCall ==
  /\ proof_of_work(last_block(Self).proof) # -1
  /\ op' = [name |-> "proof_of_work", args |-> <<last_block(Self).proof>>,
            ret |-> proof_of_work(last_block(Self).proof)]
  /\ UNCHANGED <<ledger, history, pw, conc>>

\* the endpoints, create_transaction and the methods that only compute a
\* value, one at a time
NextFrame ==
  \/ NextApi
  \/ CreateTransactionCall
  \/ HashCall
  \/ LastBlockCall
  \/ ValidProofCall
  \/ ProofOfWorkCall

SpecFrame == Init /\ [][NextFrame]_vars

(***************************************************************************)
(* Blockchain.hash called on dicts with the five keys of a block, the keys *)
(* inserted in any order.                                                  *)
(***************************************************************************)
\* the orders of insertion of the five keys
KeyOrders ==
  {order \in [1..5 -> BlockKeys] : \A i, j \in 1..5 : order[i] = order[j] => i = j}

\* the field values the dicts are built from
SampleBlocks ==
  [index : {1, 2}, timestamp : Timestamps,
   transactions : {<<>>, <<RewardTransaction>>},
   proof : {GenesisProof} \cup ProofInputs,
   previous_hash : {GenesisPreviousHash, None, PyStr(4)}]

\* a fresh Blockchain and a call blockchain.hash(block) about to be made
InitHash ==
  /\ \E now \in Timestamps :
       LET B == BlockchainInit(now) IN
       /\ chain = B.chain
       /\ current_transactions = B.current_transactions
  /\ \E block \in SampleBlocks, order \in KeyOrders :
       op = [name |-> "call_hash", args |-> <<ItemsOf(block, order)>>, ret |-> None]
  /\ enqueued = <<>>
  /\ promised = <<>>
  /\ commitAt = <<0>>
  /\ builtBy = <<[by |-> "init", linked |-> FALSE]>>
  /\ pw_ref = 0
  /\ pw_proof = 0
  /\ pw_pc = "idle"
  /\ threads = [t \in Threads |-> IdleThread]
  /\ heap = InitHeap

\* blockchain.hash(block)
HashDictCall ==
  /\ op.name = "call_hash"
  /\ op' = [name |-> "hash", args |-> op.args, ret |-> PyStr(hash_dict(op.args[1]))]
  /\ UNCHANGED <<ledger, history, pw, conc>>

NextHash == HashDictCall

SpecHash == InitHash /\ [][NextHash]_vars

(***************************************************************************)
(* Blockchain.valid_proof called alone, on each pair of numbers of the     *)
(* bounds.                                                                 *)
(***************************************************************************)
InitValid ==
  /\ \E now \in Timestamps :
       LET B == BlockchainInit(now) IN
       /\ chain = B.chain
       /\ current_transactions = B.current_transactions
  /\ \E last_proof \in 0..MaxLastProof, proof \in 0..MaxProof :
       op = [name |-> "call_valid_proof", args |-> <<last_proof, proof>>,
             ret |-> FALSE]
  /\ enqueued = <<>>
  /\ promised = <<>>
  /\ commitAt = <<0>>
  /\ builtBy = <<[by |-> "init", linked |-> FALSE]>>
  /\ pw_ref = 0
  /\ pw_proof = 0
  /\ pw_pc = "idle"
  /\ threads = [t \in Threads |-> IdleThread]
  /\ heap = InitHeap

\* blockchain.valid_proof(last_proof, proof)
ValidProofReturn ==
  /\ op.name = "call_valid_proof"
  /\ op' = [name |-> "valid_proof", args |-> op.args,
            ret |-> valid_proof(op.args[1], op.args[2])]
  /\ UNCHANGED <<ledger, history, pw, conc>>

NextValid == ValidProofReturn

SpecValid == InitValid /\ [][NextValid]_vars

(***************************************************************************)
(* proof_of_work step by step, on every reference of References.           *)
(***************************************************************************)
InitSolve ==
  /\ \E now \in Timestamps :
       LET B == BlockchainInit(now) IN
       /\ chain = B.chain
       /\ current_transactions = B.current_transactions
  /\ op = [name |-> "init", args |-> <<>>, ret |-> None]
  /\ enqueued = <<>>
  /\ promised = <<>>
  /\ commitAt = <<0>>
  /\ builtBy = <<[by |-> "init", linked |-> FALSE]>>
  /\ pw_ref \in References
  /\ pw_proof = PowStart
  /\ pw_pc = "loop"
  /\ threads = [t \in Threads |-> IdleThread]
  /\ heap = InitHeap

\* variant: the loop body does not count up
PowIterate_NoIncrement ==
  /\ pw_pc = "loop"
  /\ GuessTabulated(pw_ref, pw_proof)
  /\ PowContinue(pw_ref, pw_proof)
  /\ pw_proof' = pw_proof
  /\ UNCHANGED <<ledger, op, history, pw_ref, pw_pc, conc>>

\* the loop body: proof += 1
PowIterate ==
  /\ pw_pc = "loop"
  /\ GuessTabulated(pw_ref, pw_proof)
  /\ PowContinue(pw_ref, pw_proof)
  /\ pw_proof' = pw_proof + 1
  /\ UNCHANGED <<ledger, op, history, pw_ref, pw_pc, conc>>

\* return proof
PowReturn ==
  /\ pw_pc = "loop"
  /\ GuessTabulated(pw_ref, pw_proof)
  /\ ~PowContinue(pw_ref, pw_proof)
  /\ pw_pc' = "done"
  /\ UNCHANGED <<ledger, op, history, pw_ref, pw_proof, conc>>

NextSolve == PowIterate \/ PowReturn

SpecSolve == InitSolve /\ [][NextSolve]_vars

(***************************************************************************)
(* The search as it runs: called directly on a reference, or inside a Mine *)
(* request that is served alone.  The thread that runs the search and the  *)
(* rest of the handler keeps running.                                      *)
(***************************************************************************)
\* mine() up to the first test of the loop of proof_of_work
MineBegin ==
  /\ pw_pc = "idle"
  /\ Len(chain) < MaxChain
  /\ Len(enqueued) < MaxEnqueued
  /\ proof_of_work(last_block(Self).proof) # -1
  /\ pw_ref' = last_block(Self).proof
  /\ pw_proof' = PowStart
  /\ pw_pc' = "loop"
  /\ op' = [name |-> "mine", args |-> <<>>, ret |-> None]
  /\ UNCHANGED <<ledger, history, conc>>

\* mine() from the return of proof_of_work to the response
MineEnd ==
  /\ pw_pc = "done"
  /\ op.name = "mine"
  /\ \E now \in Timestamps :
       LET R == mine_forge(Self, last_block(Self), pw_proof, now) IN
       /\ chain' = R.chain
       /\ current_transactions' = R.current_transactions
       /\ op' = [name |-> "mine", args |-> <<>>, ret |-> R.ret]
  /\ enqueued' = Append(enqueued,
                        [sender |-> "0", recipient |-> node_identifier, amount |-> 1])
  /\ promised' = Append(promised, Len(chain) + 1)
  /\ commitAt' = Append(commitAt, Len(enqueued) + 1)
  /\ builtBy' = Append(builtBy, [by |-> "mine", linked |-> TRUE])
  /\ pw_pc' = "idle"
  /\ UNCHANGED <<pw_ref, pw_proof, conc>>

NextSearch == MineBegin \/ PowIterate \/ PowReturn \/ MineEnd

SpecSearch ==
  /\ Init \/ InitSolve
  /\ [][NextSearch]_vars
  /\ WF_vars(PowIterate \/ PowReturn \/ MineEnd)

(***************************************************************************)
(* Requests served by threads that share the one Blockchain.  A handler is *)
(* followed statement by statement.  SpecOverlap takes every call of a     *)
(* Blockchain method as one step; SpecThreads also follows create_block    *)
(* and create_transaction statement by statement, where a list that a      *)
(* block holds and a thread still refers to is one object.                 *)
(***************************************************************************)
\* requests that have not yet appended their transaction
TransactionsInFlight ==
  Cardinality({t \in Threads : threads[t].pc \in {"solve", "enqueue", "append"}})

\* Mine requests that have not yet appended their block
BlocksInFlight ==
  Cardinality({t \in Threads :
                 /\ threads[t].kind = "mine"
                 /\ threads[t].pc \notin {"idle", "respond"}})

\* mine(): last_block = blockchain.last_block; last_proof = last_block['proof']
MineStart(t) ==
  /\ threads[t].pc = "idle"
  /\ Len(enqueued) + TransactionsInFlight < MaxEnqueued
  /\ Len(chain) + BlocksInFlight < MaxChain
  /\ threads' = [threads EXCEPT ![t] =
                   [IdleThread EXCEPT !.pc = "solve", !.kind = "mine", !.lb = Len(chain)]]
  /\ UNCHANGED <<ledger, op, history, pw, heap>>

\* mine(): proof = blockchain.proof_of_work(last_proof)
MineSolve(t) ==
  /\ threads[t].pc = "solve"
  /\ proof_of_work(chain[threads[t].lb].proof) # -1
  /\ threads' = [threads EXCEPT ![t].pc = "enqueue",
                                ![t].proof = proof_of_work(chain[threads[t].lb].proof),
                                ![t].tx = RewardTransaction]
  /\ UNCHANGED <<ledger, op, history, pw, heap>>

\* create_transaction() of the endpoint, with a body that has the three keys:
\* up to the call of blockchain.create_transaction
SubmitStart(t) ==
  /\ threads[t].pc = "idle"
  /\ Len(enqueued) + TransactionsInFlight < MaxEnqueued
  /\ \E values \in Bodies :
       /\ SuppliesAll(values)
       /\ threads' = [threads EXCEPT ![t] =
                        [IdleThread EXCEPT
                           !.pc = "enqueue", !.kind = "submit",
                           !.tx = NewTransaction(values.sender, values.recipient,
                                                 values.amount)]]
  /\ UNCHANGED <<ledger, op, history, pw, heap>>

\* the call blockchain.create_transaction(...) as one step
EnqueueAtomic(t) ==
  /\ threads[t].pc = "enqueue"
  /\ LET tx == threads[t].tx
         R == create_transaction(Self, tx.sender, tx.recipient, tx.amount)
     IN /\ chain' = R.chain
        /\ current_transactions' = R.current_transactions
        /\ enqueued' = Append(enqueued, tx)
        /\ threads' = [threads EXCEPT
                         ![t].ret = R.ret,
                         ![t].pc = IF threads[t].kind = "mine" THEN "hash" ELSE "respond"]
  /\ UNCHANGED <<op, promised, commitAt, builtBy, pw, heap>>

\* create_transaction: self.current_transactions is read
TransactionLoad(t) ==
  /\ threads[t].pc = "enqueue"
  /\ threads' = [threads EXCEPT ![t].pc = "append", ![t].ref = heap.cur]
  /\ UNCHANGED <<ledger, op, history, pw, heap>>

\* create_transaction: .append({...}) on the list that was read; every block
\* that holds this list shows the new element
TransactionAppend(t) ==
  /\ threads[t].pc = "append"
  /\ LET id == threads[t].ref
         tx == threads[t].tx
     IN /\ chain' = [i \in 1..Len(chain) |->
                       IF heap.blocks[i] = id
                       THEN [chain[i] EXCEPT !.transactions = Append(@, tx)]
                       ELSE chain[i]]
        /\ current_transactions' =
             IF heap.cur = id THEN Append(current_transactions, tx)
             ELSE current_transactions
        /\ threads' = [u \in Threads |->
                         IF u = t THEN [threads[t] EXCEPT !.pc = "txret"]
                         ELSE IF /\ threads[u].pc \in {"reset", "bappend", "respond"}
                                 /\ threads[u].kind = "mine"
                                 /\ threads[u].blockList = id
                         THEN [threads[u] EXCEPT !.block.transactions = Append(@, tx)]
                         ELSE threads[u]]
        /\ enqueued' = Append(enqueued, tx)
  /\ UNCHANGED <<op, promised, commitAt, builtBy, pw, heap>>

\* create_transaction: return self.last_block['index'] + 1
TransactionReturn(t) ==
  /\ threads[t].pc = "txret"
  /\ threads' = [threads EXCEPT
                   ![t].ret = last_block(Self).index + 1,
                   ![t].pc = IF threads[t].kind = "mine" THEN "hash" ELSE "respond"]
  /\ UNCHANGED <<ledger, op, history, pw, heap>>

\* mine(): previous_hash = blockchain.hash(last_block)
MineHash(t) ==
  /\ threads[t].pc = "hash"
  /\ threads' = [threads EXCEPT ![t].pc = "build",
                                ![t].prev = PyStr(hash(chain[threads[t].lb]))]
  /\ UNCHANGED <<ledger, op, history, pw, heap>>

\* the call blockchain.create_block(proof, previous_hash) as one step
CommitAtomic(t) ==
  /\ threads[t].pc = "build"
  /\ \E now \in Timestamps :
       LET R == create_block(Self, threads[t].proof, threads[t].prev, now) IN
       /\ chain' = R.chain
       /\ current_transactions' = R.current_transactions
       /\ threads' = [threads EXCEPT ![t].pc = "respond", ![t].block = R.ret,
                                     ![t].blockList = heap.cur]
  /\ heap' = [cur |-> heap.fresh, blocks |-> Append(heap.blocks, heap.cur),
              fresh |-> heap.fresh + 1]
  /\ UNCHANGED <<op, history, pw>>

\* create_block: block = {...}
BlockBuild(t) ==
  /\ threads[t].pc = "build"
  /\ \E now \in Timestamps :
       threads' = [threads EXCEPT
                     ![t].pc = "reset",
                     ![t].block = NewBlock(Self, threads[t].proof, threads[t].prev, now),
                     ![t].blockList = heap.cur]
  /\ UNCHANGED <<ledger, op, history, pw, heap>>

\* create_block: self.current_transactions = []
BlockReset(t) ==
  /\ threads[t].pc = "reset"
  /\ current_transactions' = <<>>
  /\ heap' = [heap EXCEPT !.cur = heap.fresh, !.fresh = heap.fresh + 1]
  /\ threads' = [threads EXCEPT ![t].pc = "bappend"]
  /\ UNCHANGED <<chain, op, history, pw>>

\* create_block: self.chain.append(block)
BlockAppend(t) ==
  /\ threads[t].pc = "bappend"
  /\ chain' = Append(chain, threads[t].block)
  /\ heap' = [heap EXCEPT !.blocks = Append(@, threads[t].blockList)]
  /\ threads' = [threads EXCEPT ![t].pc = "respond"]
  /\ UNCHANGED <<current_transactions, op, history, pw>>

\* return jsonify(response)
Respond(t) ==
  /\ threads[t].pc = "respond"
  /\ op' = IF threads[t].kind = "mine"
           THEN [name |-> "mine", args |-> <<>>,
                 ret |-> [status |-> 200,
                          message |-> "New Block Forged",
                          index |-> threads[t].block.index,
                          transactions |-> threads[t].block.transactions,
                          proof |-> threads[t].block.proof,
                          previous_hash |-> threads[t].block.previous_hash]]
           ELSE [name |-> "new_transaction", args |-> <<TRUE>>,
                 ret |-> [status |-> 201,
                          message |-> "Transaction will be added to Block",
                          index |-> threads[t].ret]]
  /\ threads' = [threads EXCEPT ![t] = IdleThread]
  /\ UNCHANGED <<ledger, history, pw, heap>>

\* overlapping requests, every call of a Blockchain method one step
NextOverlap ==
  \E t \in Threads :
    \/ MineStart(t)
    \/ MineSolve(t)
    \/ SubmitStart(t)
    \/ EnqueueAtomic(t)
    \/ MineHash(t)
    \/ CommitAtomic(t)
    \/ Respond(t)

SpecOverlap == Init /\ [][NextOverlap]_vars

\* overlapping requests, statement by statement
NextThreads ==
  \E t \in Threads :
    \/ MineStart(t)
    \/ MineSolve(t)
    \/ SubmitStart(t)
    \/ TransactionLoad(t)
    \/ TransactionAppend(t)
    \/ TransactionReturn(t)
    \/ MineHash(t)
    \/ BlockBuild(t)
    \/ BlockReset(t)
    \/ BlockAppend(t)
    \/ Respond(t)

SpecThreads == Init /\ [][NextThreads]_vars

(***************************************************************************)
(* Properties.                                                             *)
(***************************************************************************)
\* the block at the end of the chain of the next state
NewLast == chain'[Len(chain')]

\* the chain of the next state is the chain with one block appended
OneBlockAppended ==
  /\ Len(chain') = Len(chain) + 1
  /\ SubSeq(chain', 1, Len(chain)) = chain

\* C1 as stated: in every state reachable by create_transaction and
\* create_block calls, every block but the first has as previous_hash the hash
\* of the block before it.
C1_HashLinkAnyCalls ==
  \A i \in 2..Len(chain) : chain[i].previous_hash = PyStr(hash(chain[i - 1]))

\* C1 amended: every block that a Mine request built, or that a create_block
\* call built which was passed the hash of the then last block, has as
\* previous_hash the hash of the block before it, in every later state.
C1_HashLinkWhenPassed ==
  \A i \in 2..Len(chain) :
    builtBy[i].linked => chain[i].previous_hash = PyStr(hash(chain[i - 1]))

\* C1 witness: a mined block on top of a block a direct call built
C1_Witness ==
  /\ Len(chain) >= 3
  /\ builtBy[2].by = "create_block"
  /\ builtBy[3].by = "mine"
  /\ chain[3].previous_hash = PyStr(hash(chain[2]))

\* C2: the block at position i (counted from 1) has index i, and the index of
\* the last block is the length of the chain.
C2_IndexContiguity ==
  /\ \A i \in 1..Len(chain) : chain[i].index = i
  /\ chain[Len(chain)].index = Len(chain)

\* C2 witness: a chain of three blocks built by both kinds of commit
C2_Witness ==
  /\ Len(chain) >= 3
  /\ \E i, j \in 2..Len(chain) : builtBy[i].by = "create_block" /\ builtBy[j].by = "mine"

\* the number of transactions created before block i was built
CreatedBefore(i) == IF i = 1 THEN 0 ELSE commitAt[i - 1]

\* C3: the transactions of every block are exactly the transactions created
\* between the previous commit and its own, in creation order, and the pending
\* list holds exactly those created since the last commit; so every
\* transaction created is in one block or pending, and in one place only.
C3_TransferConservation ==
  /\ Len(commitAt) = Len(chain)
  /\ \A i \in 1..Len(chain) :
       /\ CreatedBefore(i) <= commitAt[i]
       /\ chain[i].transactions = SubSeq(enqueued, CreatedBefore(i) + 1, commitAt[i])
  /\ current_transactions = SubSeq(enqueued, commitAt[Len(chain)] + 1, Len(enqueued))

\* C3 witness: two commits with transactions, different ones
C3_Witness ==
  /\ Len(chain) >= 3
  /\ Len(chain[2].transactions) >= 1
  /\ Len(chain[3].transactions) >= 1
  /\ chain[2].transactions[1] # chain[3].transactions[1]

\* C4: a create_block call can always be made and appends exactly one block,
\* with index the old length + 1, the pending list of the call as its
\* transactions, and the given proof and previous_hash; afterwards the pending
\* list is empty and the last block is the block returned.
C4_CommitBlock ==
  /\ [](Len(chain) < MaxChain => ENABLED CreateBlockCall)
  /\ [][op'.name = "create_block" =>
          /\ OneBlockAppended
          /\ NewLast.index = Len(chain) + 1
          /\ NewLast.transactions = current_transactions
          /\ NewLast.proof = op'.args[1]
          /\ NewLast.previous_hash = op'.args[2]
          /\ current_transactions' = <<>>
          /\ op'.ret = NewLast]_vars

\* C4 witness: a create_block call made with two pending transactions and the
\* default previous_hash
C4_Witness ==
  /\ op.name = "create_block"
  /\ Len(op.ret.transactions) >= 2
  /\ op.args[2] = None

\* C5: a create_transaction call appends exactly one transaction with the
\* given sender, recipient and amount at the end of the pending list, whatever
\* the amount, and returns the length of the chain + 1.
C5_EnqueueTransfer ==
  [][op'.name = "create_transaction" =>
       /\ current_transactions' =
            Append(current_transactions,
                   [sender |-> op'.args[1], recipient |-> op'.args[2],
                    amount |-> op'.args[3]])
       /\ op'.ret = Len(chain) + 1]_vars

\* C5 witness: a negative amount created after a zero amount, on a longer chain
C5_Witness ==
  /\ op.name = "create_transaction"
  /\ op.args[3] < 0
  /\ Len(current_transactions) >= 2
  /\ current_transactions[1].amount = 0
  /\ op.ret = 3

\* the number of transactions in the blocks before block i
RECURSIVE TransactionsBefore(_)
TransactionsBefore(i) ==
  IF i <= 1 THEN 0
  ELSE TransactionsBefore(i - 1) + Len(chain[i - 1].transactions)

\* C6: the j-th transaction created, for which the call returned index k, is,
\* once the chain has k blocks, in the block with index k and in no other: the
\* j-th of the transactions of all blocks lies in that block and is that
\* transaction.
C6_PromisedIndex ==
  \A j \in 1..Len(promised) :
    LET k == promised[j] IN
    Len(chain) >= k =>
      /\ k >= 1
      /\ chain[k].index = k
      /\ TransactionsBefore(k) < j
      /\ j <= TransactionsBefore(k) + Len(chain[k].transactions)
      /\ chain[k].transactions[j - TransactionsBefore(k)] = enqueued[j]

\* C6 witness: a client's transaction promised block 3 and a reward promised
\* block 2, both committed
C6_Witness ==
  /\ Len(chain) >= 3
  /\ \E j \in 1..Len(promised) : promised[j] = 3 /\ enqueued[j].sender = "a"
  /\ \E j \in 1..Len(promised) : promised[j] = 2 /\ enqueued[j].sender = "0"

\* C7: the fresh Blockchain has one block, with index 1, no transactions,
\* previous_hash 1 and proof 100, and no pending transactions; and the chain
\* is never empty.
C7_Genesis ==
  /\ op.name = "init" =>
       /\ Len(chain) = 1
       /\ chain[1].index = 1
       /\ chain[1].transactions = <<>>
       /\ chain[1].previous_hash = [t |-> "int", v |-> 1]
       /\ chain[1].proof = 100
       /\ current_transactions = <<>>
  /\ Len(chain) >= 1

\* C7 witness: the fresh Blockchain
C7_Witness ==
  /\ op.name = "init"
  /\ Len(chain) = 1
  /\ chain[1].proof = 100

\* C8: in every step the chain before is a prefix of the chain after, and the
\* hash of every block of the chain stays what it was.
C8_AppendOnly ==
  [][/\ Len(chain') >= Len(chain)
     /\ SubSeq(chain', 1, Len(chain)) = chain
     /\ \A i \in 1..Len(chain) : hash(chain'[i]) = hash(chain[i])]_vars

\* C8 witness: a transaction created after two commits
C8_Witness ==
  /\ Len(chain) >= 3
  /\ op.name \in {"create_transaction", "new_transaction"}
  /\ current_transactions # <<>>
  /\ chain[3].transactions # <<>>

\* C9: a Mine request appends exactly one block, with the index of the last
\* block + 1, the hash of the last block as previous_hash, as proof the least
\* non-negative proof valid for the proof of the last block, and as
\* transactions the pending list followed by the reward; afterwards the
\* pending list is empty.
C9_Mine ==
  [][op'.name = "mine" =>
       LET L == chain[Len(chain)] IN
       /\ OneBlockAppended
       /\ NewLast.index = L.index + 1
       /\ NewLast.previous_hash = PyStr(hash(L))
       /\ NewLast.proof >= 0
       /\ valid_proof(L.proof, NewLast.proof)
       /\ \A c \in 0..(NewLast.proof - 1) : ~valid_proof(L.proof, c)
       /\ NewLast.transactions =
            Append(current_transactions,
                   [sender |-> "0", recipient |-> node_identifier, amount |-> 1])
       /\ current_transactions' = <<>>]_vars

\* C9 witness: a Mine request served with a transaction pending, on a chain of
\* two blocks
C9_Witness ==
  /\ op.name = "mine"
  /\ Len(chain) >= 3
  /\ Len(op.ret.transactions) >= 2
  /\ op.ret.transactions[1].sender = "a"
  /\ op.ret.proof > 0

\* C10: when proof_of_work returns, the proof returned is valid for the
\* reference and no smaller non-negative proof is.
C10_SolveMinimal ==
  pw_pc = "done" =>
    /\ pw_proof >= 0
    /\ valid_proof(pw_ref, pw_proof)
    /\ \A c \in 0..(pw_proof - 1) : ~valid_proof(pw_ref, c)
    /\ pw_proof = proof_of_work(pw_ref)

\* C10 witness: the search on the proof of the genesis block has returned
C10_Witness ==
  /\ pw_pc = "done"
  /\ pw_ref = 100
  /\ pw_proof = 226

\* C11: a Submit-transfer request whose body does not supply all of sender,
\* recipient and amount is answered with status 400, and chain and the
\* pending list are unchanged.
C11_MalformedRejected ==
  [][(op'.name = "new_transaction" /\ ~op'.args[1]) =>
       /\ op'.ret.status = 400
       /\ chain' = chain
       /\ current_transactions' = current_transactions]_vars

\* C12: a create_transaction call and a Submit-transfer request that is
\* accepted leave the chain unchanged and change the pending list only by one
\* element appended; hash, last_block, valid_proof, proof_of_work and
\* Read-chain leave the chain and the pending list unchanged.
C12_Frame ==
  [][/\ (op'.name = "create_transaction"
           \/ (op'.name = "new_transaction" /\ op'.ret.status = 201)) =>
          /\ chain' = chain
          /\ Len(current_transactions') = Len(current_transactions) + 1
          /\ SubSeq(current_transactions', 1, Len(current_transactions))
               = current_transactions
     /\ op'.name \in {"hash", "last_block", "valid_proof", "proof_of_work", "full_chain"} =>
          /\ chain' = chain
          /\ current_transactions' = current_transactions]_vars

\* C12 witness: a request accepted with a transaction already pending
C12_Witness ==
  /\ op.name = "new_transaction"
  /\ op.ret.status = 201
  /\ Len(current_transactions) >= 2

\* the transactions of all blocks of the chain, in chain order
RECURSIVE Committed(_)
Committed(n) ==
  IF n = 0 THEN <<>> ELSE Committed(n - 1) \o chain[n].transactions

\* the number of times x occurs in the sequence s
Occurrences(s, x) == Cardinality({i \in 1..Len(s) : s[i] = x})

\* C13: with requests served by threads whose create_transaction and
\* create_block calls interleave, the block at position i has index i, and
\* once no request is in progress every transaction created is in the blocks
\* and the pending list exactly as often as it was created.
C13_ConcurrentCallers ==
  /\ \A i \in 1..Len(chain) : chain[i].index = i
  /\ (\A t \in Threads : threads[t].pc = "idle") =>
       LET held == Committed(Len(chain)) \o current_transactions IN
       /\ Len(held) = Len(enqueued)
       /\ \A j \in 1..Len(enqueued) :
            Occurrences(held, enqueued[j]) = Occurrences(enqueued, enqueued[j])

\* C16: with overlapping Mine requests, every call of a Blockchain method one
\* step, every block but the first has as previous_hash the hash of the block
\* before it.
C16_OverlappingMineLink ==
  \A i \in 2..Len(chain) : chain[i].previous_hash = [t |-> "str", v |-> hash(chain[i - 1])]

\* a Mine request is being served and has not yet answered
Mining == op.name = "mine" /\ pw_pc \in {"loop", "done"}

\* C14: the search of proof_of_work, once started, returns; and a Mine
\* request, once its search has started, appends its block and answers.
C14_SolveTerminates ==
  /\ (pw_pc = "loop") ~> (pw_pc = "done")
  /\ \A n \in 1..MaxChain :
       (Mining /\ Len(chain) = n) ~> (~Mining /\ op.name = "mine" /\ Len(chain) = n + 1)

\* C14 witness: a second Mine request has answered after its search
C14_Witness ==
  /\ op.name = "mine"
  /\ pw_pc = "idle"
  /\ Len(chain) = 3
  /\ pw_ref = 226
  /\ pw_proof = 346

\* the block whose field values the items hold
BlockOfItems(items) ==
  [k \in BlockKeys |-> items[CHOOSE i \in 1..Len(items) : items[i][1] = k][2]]

\* C15: the digest that hash returns for a dict depends on the values of the
\* five fields only: it is the digest of the dict with the same values and
\* the keys inserted in the order of create_block, and the digest of the
\* block with these values.
C15_HashOfFieldsOnly ==
  op.name = "hash" =>
    LET block == BlockOfItems(op.args[1]) IN
    /\ op.ret.v = hash_dict(ItemsOf(block, CreationOrder))
    /\ op.ret.v = hash(block)

\* C15 witness: hash has been called on a dict whose keys were inserted in
\* the reverse of string order
C15_Witness ==
  /\ op.name = "hash"
  /\ op.args[1][1][1] = "transactions"
  /\ op.args[1][2][1] = "timestamp"
  /\ op.args[1][5][1] = "index"
  /\ op.args[1][1][2] # <<>>

\* C17: when only Mine, Submit-transfer and Read-chain requests are served,
\* one at a time, the proof of every block but the first is valid for the
\* proof of the block before it, and no smaller non-negative proof is.
C17_ProofLink ==
  \A i \in 2..Len(chain) :
    /\ chain[i].proof >= 0
    /\ valid_proof(chain[i - 1].proof, chain[i].proof)
    /\ \A c \in 0..(chain[i].proof - 1) : ~valid_proof(chain[i - 1].proof, c)

\* C17 witness: two mined blocks
C17_Witness ==
  /\ Len(chain) >= 3
  /\ chain[2].proof > 0
  /\ chain[3].proof > 0
  /\ chain[3].proof # chain[2].proof

\* the proofs of a chain that Mine requests built, by position
MinedProofs == <<100, 226, 346, 57, 289, 175, 27, 26, 50>>

\* C18: when only Mine, Submit-transfer and Read-chain requests are served,
\* one at a time, the proof of the block at position k is a value that
\* depends on k alone, whatever transactions were submitted; so two chains
\* with the same number of Mine requests have the same proofs.
C18_ProofByPosition ==
  \A k \in 1..Len(chain) : chain[k].proof = MinedProofs[k]

\* C18 witness: a mined block that carries a submitted transfer
C18_Witness ==
  /\ Len(chain) >= 2
  /\ Len(chain[2].transactions) = 2
  /\ chain[2].transactions[1].amount = 5
  /\ chain[2].timestamp # chain[1].timestamp
  /\ chain[2].proof = 226

\* a digit string that is the decimal string of a non-negative integer
IsDecimal(digits) == Len(digits) >= 1 /\ (Len(digits) > 1 => digits[1] # 0)

RECURSIVE DecVal(_)
\* the integer a decimal string stands for
DecVal(digits) ==
  IF digits = <<>> THEN 0
  ELSE 10 * DecVal(SubSeq(digits, 1, Len(digits) - 1)) + digits[Len(digits)]

\* C19: valid_proof depends only on the concatenation of the decimal strings
\* of its two arguments: every pair of non-negative integers whose strings
\* concatenate to the same string (such as (2, 86) and (28, 6)) gets the
\* same result.
C19_ConcatenationOnly ==
  op.name = "valid_proof" =>
    LET s == DecStr(op.args[1]) \o DecStr(op.args[2]) IN
    \A k \in 1..(Len(s) - 1) :
      LET l == SubSeq(s, 1, k)
          r == SubSeq(s, k + 1, Len(s))
      IN (IsDecimal(l) /\ IsDecimal(r)) =>
           valid_proof(DecVal(l), DecVal(r)) = op.ret

\* C19 witness: the call on (2, 86), valid as (28, 6) is
C19_Witness ==
  /\ op.name = "valid_proof"
  /\ op.args = <<2, 86>>
  /\ op.ret = TRUE
  /\ valid_proof(28, 6)

====
